---- MODULE Spec2Model ----
(***************************************************************************)
(* A model of the probe-orchestration core of the web security audit tool: *)
(* AuditEngine (core/audit_engine.py), BatchAuditResult and AuditResult    *)
(* (auditors/data_models.py), BaseAuditor.execute_audit and                *)
(* determine_status (auditors/base_auditor.py), the TLS prober             *)
(* (auditors/tls_security.py) and the compliance evaluator                 *)
(* (core/compliance_evaluator.py).                                         *)
(***************************************************************************)
EXTENDS Integers, Sequences, FiniteSets, TLC

VARIABLES
    target_sites,      \* audit_batch's argument: the list of target URLs
    enabled_auditors,  \* AuditEngine.enabled_auditors (config audit.enabled_auditors)
    max_workers,       \* AuditEngine.max_workers (config audit.parallel_workers)
    env,               \* what the network and the auditors did so far: (url, kind) -> outcome
    pc,                \* where audit_batch's thread is
    idx,               \* _execute_sequential's loop index i (1-based)
    tasks,             \* one audit_single_site call per target: its state, loop position and results
    results,           \* the local list `results` of _execute_sequential / _execute_parallel
    completed,         \* _execute_parallel's counter `completed`
    batch_result,      \* the BatchAuditResult of this run
    call,              \* the arguments of the function under study (function-level specifications)
    ret                \* its return value, once it has returned

engineVars == <<target_sites, enabled_auditors, max_workers, env, pc, idx, tasks,
                results, completed, batch_result>>
funVars == <<call, ret>>
vars == <<target_sites, enabled_auditors, max_workers, env, pc, idx, tasks,
          results, completed, batch_result, call, ret>>

----------------------------------------------------------------------------
(* Bounds of the model *)

MaxTargets == 2
MaxEnabled == 2
MaxWorkers == 2

(* The URLs a target list is drawn from, and the names a configuration may list *)
Urls == {"u1", "u2"}
ConfigNames == {"tls_security", "security_headers", "unknown_auditor"}

SeqsUpTo(S, n) == UNION {[1..m -> S] : m \in 0..n}

----------------------------------------------------------------------------
(* data_models.py *)

AuditStatus == {"OK", "NG", "WARNING", "ERROR"}

(* The fields of the AuditResult dataclass: its generated __init__ takes these
   keywords and no other. *)
AuditResultFields == {"audit_type", "url", "status", "details", "recommendations",
                      "execution_time", "timestamp", "error_message"}

(* AuditResult called with the keywords kw: a TypeError for a keyword that is
   no field. *)
AuditResult(kw) ==
    IF DOMAIN kw \subseteq AuditResultFields
    THEN [ok |-> TRUE,
          value |-> [audit_type |-> kw.audit_type, url |-> kw.url, status |-> kw.status]]
    ELSE [ok |-> FALSE,
          value |-> [audit_type |-> "", url |-> "", status |-> "ERROR"]]

(* is_success as it would be if WARNING were not counted as a success *)
is_success_OkOnly(result) == result.status = "OK"

(* AuditResult.is_success *)
is_success(result) == result.status \in {"OK", "WARNING"}

(* BatchAuditResult() *)
NewBatchAuditResult ==
    [results |-> <<>>, total_sites |-> 0, successful_audits |-> 0, failed_audits |-> 0,
     completes |-> 0]

(* BatchAuditResult.add_result *)
add_result(b, result) ==
    IF is_success(result)
    THEN [b EXCEPT !.results = Append(@, result), !.successful_audits = @ + 1]
    ELSE [b EXCEPT !.results = Append(@, result), !.failed_audits = @ + 1]

(* BatchAuditResult.complete: sets end_time; `completes` counts the calls *)
complete(b) == [b EXCEPT !.completes = @ + 1]

----------------------------------------------------------------------------
(* audit_engine.py *)

(* AuditEngine.auditor_classes: the static registry *)
auditor_classes == {"component_vulnerability", "encryption_check", "tls_security",
                    "access_control", "security_headers"}

(* What `with auditor_class(cfg) as auditor: auditor.execute_audit(url)` can do:
   return an AuditResult, or raise (the constructor or __exit__ faulting;
   execute_audit itself returns an ERROR result for a fault of the probe). The
   engine never reads the verdict; add_result only reads is_success, so one
   successful and one failed verdict stand for the four. *)
Outcomes == {"OK", "ERROR", "RAISE"}

(* The keywords the engine's three error paths pass to AuditResult *)
ErrorKwargs(auditor_name, url) ==
    [audit_type |-> auditor_name, url |-> url, status |-> "ERROR", score |-> 0,
     error_message |-> "str(e)"]

(* The outcomes the probe (url, name) may have now: the one already observed
   for this pair in this run, any when it has not run yet (probe outcomes are
   deterministic per target and kind). *)
OutcomeChoices(url, name) ==
    IF <<url, name>> \in DOMAIN env THEN {env[<<url, name>>]} ELSE Outcomes

Observe(url, name, o) ==
    IF name \in auditor_classes /\ <<url, name>> \notin DOMAIN env
    THEN env @@ (<<url, name>> :> o)
    ELSE env

(* How an audit_single_site call ends up after its loop body ran once. *)
LoopEnd(tk) ==
    IF tk.st = "running" /\ tk.k > Len(enabled_auditors) THEN [tk EXCEPT !.st = "done"] ELSE tk

(* The loop body as it would be without the `continue` for an unknown name *)
audit_single_site_iter_NoSkip(tk, url, o) ==
    LET auditor_name == enabled_auditors[tk.k] IN
    IF o # "RAISE"
    THEN LoopEnd([tk EXCEPT !.k = @ + 1,
                            !.res = Append(@, [audit_type |-> auditor_name, url |-> url,
                                               status |-> o])])
    ELSE [tk EXCEPT !.st = "failed"]

(* The loop body as it would be with `break` in place of `continue` *)
audit_single_site_iter_StopAtUnknown(tk, url, o) ==
    LET auditor_name == enabled_auditors[tk.k] IN
    IF auditor_name \notin auditor_classes
    THEN [tk EXCEPT !.k = Len(enabled_auditors) + 1, !.st = "done"]
    ELSE IF o # "RAISE"
    THEN LoopEnd([tk EXCEPT !.k = @ + 1,
                            !.res = Append(@, [audit_type |-> auditor_name, url |-> url,
                                               status |-> o])])
    ELSE [tk EXCEPT !.st = "failed"]

(* One iteration of audit_single_site's loop over enabled_auditors for the
   call tk on url, the auditor's outcome being o. *)
audit_single_site_iter(tk, url, o) ==
    LET auditor_name == enabled_auditors[tk.k] IN
    IF auditor_name \notin auditor_classes
    THEN LoopEnd([tk EXCEPT !.k = @ + 1])
    ELSE IF o # "RAISE"
    THEN LoopEnd([tk EXCEPT !.k = @ + 1,
                            !.res = Append(@, [audit_type |-> auditor_name, url |-> url,
                                               status |-> o])])
    ELSE LET error_result == AuditResult(ErrorKwargs(auditor_name, url)) IN
         IF error_result.ok
         THEN LoopEnd([tk EXCEPT !.k = @ + 1, !.res = Append(@, error_result.value)])
         ELSE [tk EXCEPT !.st = "failed"]

(* Entering audit_single_site: with nothing enabled the loop body never runs. *)
audit_single_site_enter(tk) == LoopEnd([tk EXCEPT !.st = "running"])

RECURSIVE ErrorResultsFrom(_, _)
(* The except-branch of _execute_sequential / _execute_parallel: one ERROR
   AuditResult per enabled auditor, from position j on; ok is FALSE when a
   constructor raised. *)
ErrorResultsFrom(j, url) ==
    IF j > Len(enabled_auditors) THEN [ok |-> TRUE, value |-> <<>>]
    ELSE LET error_result == AuditResult(ErrorKwargs(enabled_auditors[j], url))
             rest == ErrorResultsFrom(j + 1, url)
         IN IF error_result.ok /\ rest.ok
            THEN [ok |-> TRUE, value |-> <<error_result.value>> \o rest.value]
            ELSE [ok |-> FALSE, value |-> <<>>]

error_results(url) == ErrorResultsFrom(1, url)

NewTask == [st |-> "new", k |-> 1, res |-> <<>>, collected |-> FALSE]

Init ==
    /\ target_sites \in SeqsUpTo(Urls, MaxTargets)
    /\ enabled_auditors \in SeqsUpTo(ConfigNames, MaxEnabled)
    /\ max_workers \in 1..MaxWorkers
    /\ env = <<>>
    /\ pc = "start"
    /\ idx = 1
    /\ tasks = [t \in 1..Len(target_sites) |-> NewTask]
    /\ results = <<>>
    /\ completed = 0
    /\ batch_result = NewBatchAuditResult
    /\ call = <<>>
    /\ ret = <<>>

(* audit_batch, lines 106-117: the BatchAuditResult is created and the mode
   chosen; in parallel mode every site is submitted to the executor. *)
AuditBatchStart ==
    /\ pc = "start"
    /\ batch_result' = [NewBatchAuditResult EXCEPT !.total_sites = Len(target_sites)]
    /\ IF max_workers = 1
       THEN /\ pc' = "seq"
            /\ tasks' = tasks
       ELSE /\ pc' = "par"
            /\ tasks' = [t \in DOMAIN tasks |-> [tasks[t] EXCEPT !.st = "queued"]]
    /\ UNCHANGED <<target_sites, enabled_auditors, max_workers, env, idx, results,
                   completed, call, ret>>

(* _execute_sequential: the loop reaches site idx and calls audit_single_site *)
SeqBeginSite ==
    /\ pc = "seq"
    /\ idx <= Len(target_sites)
    /\ tasks[idx].st = "new"
    /\ tasks' = [tasks EXCEPT ![idx] = audit_single_site_enter(@)]
    /\ UNCHANGED <<target_sites, enabled_auditors, max_workers, env, pc, idx, results,
                   completed, batch_result, call, ret>>

(* one auditor of the site in hand *)
SeqProbe ==
    /\ pc = "seq"
    /\ idx <= Len(target_sites)
    /\ tasks[idx].st = "running"
    /\ LET url == target_sites[idx]
           name == enabled_auditors[tasks[idx].k]
       IN \E o \in OutcomeChoices(url, name) :
            /\ tasks' = [tasks EXCEPT ![idx] = audit_single_site_iter(@, url, o)]
            /\ env' = Observe(url, name, o)
    /\ UNCHANGED <<target_sites, enabled_auditors, max_workers, pc, idx, results,
                   completed, batch_result, call, ret>>

(* SeqSiteReturned putting the site's results in front of the earlier ones *)
SeqSiteReturned_Prepend ==
    /\ pc = "seq"
    /\ idx <= Len(target_sites)
    /\ tasks[idx].st = "done"
    /\ results' = <<tasks[idx].res>> \o results
    /\ tasks' = [tasks EXCEPT ![idx].collected = TRUE]
    /\ idx' = idx + 1
    /\ UNCHANGED <<target_sites, enabled_auditors, max_workers, env, pc, completed,
                   batch_result, call, ret>>

(* audit_single_site returned: lines 157-158 *)
SeqSiteReturned ==
    /\ pc = "seq"
    /\ idx <= Len(target_sites)
    /\ tasks[idx].st = "done"
    /\ results' = Append(results, tasks[idx].res)
    /\ tasks' = [tasks EXCEPT ![idx].collected = TRUE]
    /\ idx' = idx + 1
    /\ UNCHANGED <<target_sites, enabled_auditors, max_workers, env, pc, completed,
                   batch_result, call, ret>>

(* audit_single_site raised: lines 160-173; a fault of the handler itself
   leaves _execute_sequential and reaches audit_batch's handler, lines 135-138 *)
SeqSiteRaised ==
    /\ pc = "seq"
    /\ idx <= Len(target_sites)
    /\ tasks[idx].st = "failed"
    /\ LET er == error_results(target_sites[idx]) IN
       IF er.ok
       THEN /\ results' = Append(results, er.value)
            /\ idx' = idx + 1
            /\ UNCHANGED <<pc, batch_result>>
       ELSE /\ pc' = "raised"
            /\ batch_result' = complete(batch_result)
            /\ UNCHANGED <<results, idx>>
    /\ tasks' = [tasks EXCEPT ![idx].collected = TRUE]
    /\ UNCHANGED <<target_sites, enabled_auditors, max_workers, env, completed, call, ret>>

(* _execute_sequential returns `results` *)
SeqReturn ==
    /\ pc = "seq"
    /\ idx > Len(target_sites)
    /\ pc' = "add"
    /\ UNCHANGED <<target_sites, enabled_auditors, max_workers, env, idx, tasks, results,
                   completed, batch_result, call, ret>>

running == {t \in DOMAIN tasks : tasks[t].st = "running"}

(* WorkerStart for an executor that starts a thread for every submitted call *)
WorkerStart_NoCap(t) ==
    /\ pc \in {"par", "par_exit"}
    /\ tasks[t].st = "queued"
    /\ \A s \in 1..(t - 1) : tasks[s].st # "queued"
    /\ tasks' = [tasks EXCEPT ![t] = audit_single_site_enter(@)]
    /\ UNCHANGED <<target_sites, enabled_auditors, max_workers, env, pc, idx, results,
                   completed, batch_result, call, ret>>

(* A pool thread takes the next queued call (the executor's queue is FIFO) *)
WorkerStart(t) ==
    /\ pc \in {"par", "par_exit"}
    /\ tasks[t].st = "queued"
    /\ \A s \in 1..(t - 1) : tasks[s].st # "queued"
    /\ Cardinality(running) < max_workers
    /\ tasks' = [tasks EXCEPT ![t] = audit_single_site_enter(@)]
    /\ UNCHANGED <<target_sites, enabled_auditors, max_workers, env, pc, idx, results,
                   completed, batch_result, call, ret>>

(* WorkerProbe for a worker that adds its result to the BatchAuditResult itself *)
WorkerProbe_AddsToBatch(t) ==
    /\ pc \in {"par", "par_exit"}
    /\ tasks[t].st = "running"
    /\ LET url == target_sites[t]
           name == enabled_auditors[tasks[t].k]
       IN \E o \in OutcomeChoices(url, name) :
            LET tk == audit_single_site_iter(tasks[t], url, o) IN
            /\ tasks' = [tasks EXCEPT ![t] = tk]
            /\ env' = Observe(url, name, o)
            /\ batch_result' = IF Len(tk.res) > Len(tasks[t].res)
                               THEN add_result(batch_result, tk.res[Len(tk.res)])
                               ELSE batch_result
    /\ UNCHANGED <<target_sites, enabled_auditors, max_workers, pc, idx, results,
                   completed, call, ret>>

(* A pool thread runs one auditor of its site *)
WorkerProbe(t) ==
    /\ pc \in {"par", "par_exit"}
    /\ tasks[t].st = "running"
    /\ LET url == target_sites[t]
           name == enabled_auditors[tasks[t].k]
       IN \E o \in OutcomeChoices(url, name) :
            /\ tasks' = [tasks EXCEPT ![t] = audit_single_site_iter(@, url, o)]
            /\ env' = Observe(url, name, o)
    /\ UNCHANGED <<target_sites, enabled_auditors, max_workers, pc, idx, results,
                   completed, batch_result, call, ret>>

(* The collection step as it would be if it kept only the last site's list *)
CollectReturned_Overwrite(t) ==
    /\ pc = "par"
    /\ tasks[t].st = "done"
    /\ ~tasks[t].collected
    /\ completed' = completed + 1
    /\ results' = <<tasks[t].res>>
    /\ tasks' = [tasks EXCEPT ![t].collected = TRUE]
    /\ UNCHANGED <<target_sites, enabled_auditors, max_workers, env, pc, idx,
                   batch_result, call, ret>>

(* as_completed yields a finished future whose call returned: lines 199-207 *)
CollectReturned(t) ==
    /\ pc = "par"
    /\ tasks[t].st = "done"
    /\ ~tasks[t].collected
    /\ completed' = completed + 1
    /\ results' = Append(results, tasks[t].res)
    /\ tasks' = [tasks EXCEPT ![t].collected = TRUE]
    /\ UNCHANGED <<target_sites, enabled_auditors, max_workers, env, pc, idx,
                   batch_result, call, ret>>

(* as_completed yields a finished future whose call raised: lines 209-222; a
   fault of the handler itself leaves the loop and the `with` block *)
CollectRaised(t) ==
    /\ pc = "par"
    /\ tasks[t].st = "failed"
    /\ ~tasks[t].collected
    /\ completed' = completed + 1
    /\ LET er == error_results(target_sites[t]) IN
       IF er.ok
       THEN /\ results' = Append(results, er.value)
            /\ pc' = pc
       ELSE /\ pc' = "par_exit"
            /\ results' = results
    /\ tasks' = [tasks EXCEPT ![t].collected = TRUE]
    /\ UNCHANGED <<target_sites, enabled_auditors, max_workers, env, idx,
                   batch_result, call, ret>>

(* every future was yielded: the `with` block ends and `results` is returned *)
ParReturn ==
    /\ pc = "par"
    /\ \A t \in DOMAIN tasks : tasks[t].collected
    /\ pc' = "add"
    /\ UNCHANGED <<target_sites, enabled_auditors, max_workers, env, idx, tasks, results,
                   completed, batch_result, call, ret>>

(* The executor's __exit__ (shutdown(wait=True)) lets every submitted call
   finish before the exception reaches audit_batch's handler, lines 135-138 *)
ParRaise ==
    /\ pc = "par_exit"
    /\ \A t \in DOMAIN tasks : tasks[t].st \in {"done", "failed"}
    /\ pc' = "raised"
    /\ batch_result' = complete(batch_result)
    /\ UNCHANGED <<target_sites, enabled_auditors, max_workers, env, idx, tasks, results,
                   completed, call, ret>>

RECURSIVE Flatten(_)
Flatten(ll) == IF ll = <<>> THEN <<>> ELSE Head(ll) \o Flatten(Tail(ll))

RECURSIVE AddAll(_, _)
(* audit_batch, lines 120-122: add_result for every result of every list, in
   order *)
AddAll(b, rs) == IF rs = <<>> THEN b ELSE AddAll(add_result(b, Head(rs)), Tail(rs))

(* AuditLogger.batch_complete formats successful/total_urls: a
   ZeroDivisionError when total_urls is 0 *)
batch_complete_raises(total_urls) == total_urls = 0

(* audit_batch, lines 119-138: the results are added, complete(), the
   completion log, return; a fault of the log reaches the handler, which
   completes again and raises AuditError *)
AuditBatchFinish ==
    /\ pc = "add"
    /\ LET added == AddAll(batch_result, Flatten(results)) IN
       IF batch_complete_raises(added.total_sites)
       THEN /\ batch_result' = complete(complete(added))
            /\ pc' = "raised"
       ELSE /\ batch_result' = complete(added)
            /\ pc' = "returned"
    /\ UNCHANGED <<target_sites, enabled_auditors, max_workers, env, idx, tasks, results,
                   completed, call, ret>>

Next ==
    \/ AuditBatchStart
    \/ SeqBeginSite
    \/ SeqProbe
    \/ SeqSiteReturned
    \/ SeqSiteRaised
    \/ SeqReturn
    \/ \E t \in DOMAIN tasks : WorkerStart(t)
    \/ \E t \in DOMAIN tasks : WorkerProbe(t)
    \/ \E t \in DOMAIN tasks : CollectReturned(t)
    \/ \E t \in DOMAIN tasks : CollectRaised(t)
    \/ ParReturn
    \/ ParRaise
    \/ AuditBatchFinish

Spec == Init /\ [][Next]_vars

----------------------------------------------------------------------------
(* Properties of audit_batch *)

Range(f) == {f[x] : x \in DOMAIN f}
CountIn(seq, r) == Cardinality({n \in DOMAIN seq : seq[n] = r})
CountWhere(seq, url, name) ==
    Cardinality({n \in DOMAIN seq : seq[n].url = url /\ seq[n].audit_type = name})
TargetsWith(url) == Cardinality({t \in DOMAIN target_sites : target_sites[t] = url})
EntriesWith(name) == Cardinality({j \in DOMAIN enabled_auditors : enabled_auditors[j] = name})
Successes(seq) == Cardinality({n \in DOMAIN seq : seq[n].status \in {"OK", "WARNING"}})
Failures(seq) == Cardinality({n \in DOMAIN seq : seq[n].status \in {"NG", "ERROR"}})
Terminated == pc \in {"returned", "raised"}
RaiseObserved == "RAISE" \in Range(env)

(* The reference run: the registered entries of the enabled list, in order,
   against the targets, in order, with the outcomes the probes had. *)
RegisteredEntries == SelectSeq(enabled_auditors, LAMBDA name : name \in auditor_classes)
ExpectedFor(t) ==
    [j \in 1..Len(RegisteredEntries) |->
        [audit_type |-> RegisteredEntries[j], url |-> target_sites[t],
         status |-> env[<<target_sites[t], RegisteredEntries[j]>>]]]
ExpectedAll == Flatten([t \in 1..Len(target_sites) |-> ExpectedFor(t)])

(* C1 (as claimed): the BatchResult audit_batch returns has total_sites = N,
   and for the empty target list audit_batch returns a BatchResult with no
   results and both counters 0. *)
C1_TotalSitesAndEmptyBatch ==
    /\ pc = "returned" => batch_result.total_sites = Len(target_sites)
    /\ (Terminated /\ Len(target_sites) = 0) =>
          /\ pc = "returned"
          /\ batch_result.total_sites = 0
          /\ batch_result.results = <<>>
          /\ batch_result.successful_audits = 0
          /\ batch_result.failed_audits = 0

(* C3: what audit_batch ends with is a function of the targets, the enabled
   list and the probe outcomes alone, the same for every worker count and
   every completion order: it returns exactly when the list is not empty and no
   auditor raised, and then the results are, as a multiset, those of the
   reference run, with its success and failure counts; otherwise no result was
   added. *)
C3_SameResultsForEveryWorkerCount ==
    /\ pc = "returned" =>
          /\ Len(target_sites) > 0 /\ ~RaiseObserved
          /\ Len(batch_result.results) = Len(ExpectedAll)
          /\ \A r \in Range(ExpectedAll) \cup Range(batch_result.results) :
                CountIn(batch_result.results, r) = CountIn(ExpectedAll, r)
          /\ batch_result.successful_audits = Successes(ExpectedAll)
          /\ batch_result.failed_audits = Failures(ExpectedAll)
    /\ pc = "raised" =>
          /\ Len(target_sites) = 0 \/ RaiseObserved
          /\ batch_result.results = <<>>
          /\ batch_result.successful_audits = 0
          /\ batch_result.failed_audits = 0

(* C3 witness: a concurrent run returned its results in another order than
   the reference run's. *)
C3_Witness ==
    /\ pc = "returned"
    /\ max_workers > 1
    /\ Len(batch_result.results) >= 2
    /\ batch_result.results # ExpectedAll
    /\ batch_result.failed_audits > 0

(* C4 (as claimed): on return there is exactly one result for every pair of a
   submitted target and a name of the enabled list. *)
C4_OnePerTargetAndEnabledName ==
    pc = "returned" =>
        \A t \in DOMAIN target_sites : \A name \in Range(enabled_auditors) :
            CountWhere(batch_result.results, target_sites[t], name)
                = TargetsWith(target_sites[t])

(* C4 (amended): on return there is exactly one result for every pair of a
   submitted target and an entry of the enabled list that names a registered
   auditor, and none for any other name. *)
C4_OnePerTargetAndRegisteredEntry ==
    pc = "returned" =>
        \A url \in Urls : \A name \in ConfigNames \cup auditor_classes :
            CountWhere(batch_result.results, url, name)
                = IF name \in auditor_classes
                  THEN TargetsWith(url) * EntriesWith(name)
                  ELSE 0

(* C4 witness: a run returned whose enabled list names an unknown auditor
   next to a registered one. *)
C4_Witness ==
    /\ pc = "returned"
    /\ "unknown_auditor" \in Range(enabled_auditors)
    /\ Len(target_sites) >= 2
    /\ Len(batch_result.results) >= 2

(* C5 (as claimed): when an auditor raised while one target was audited, the
   batch still returns, that target has one ERROR result per enabled auditor
   and every other target has the results of the reference run. *)
C5_FaultDegradesOneTargetOnly ==
    (Terminated /\ RaiseObserved) =>
        /\ pc = "returned"
        /\ \A t \in DOMAIN target_sites :
              LET url == target_sites[t]
                  faulted == \E name \in Range(enabled_auditors) :
                                 <<url, name>> \in DOMAIN env /\ env[<<url, name>>] = "RAISE"
              IN IF faulted
                 THEN \A name \in Range(enabled_auditors) :
                        CountIn(batch_result.results,
                                [audit_type |-> name, url |-> url, status |-> "ERROR"])
                            = TargetsWith(url) * EntriesWith(name)
                 ELSE \A r \in Range(ExpectedFor(t)) :
                        CountIn(batch_result.results, r) = CountIn(ExpectedAll, r)

----------------------------------------------------------------------------
(* A BatchAuditResult under any sequence of add_result calls *)

MaxAdds == 4

(* The engine at rest, for the specifications that study one function *)
EngineIdle ==
    /\ target_sites = <<>>
    /\ enabled_auditors = <<>>
    /\ max_workers = 1
    /\ env = <<>>
    /\ pc = "idle"
    /\ idx = 1
    /\ tasks = <<>>
    /\ results = <<>>
    /\ completed = 0

AnyResults == [audit_type : {"tls_security"}, url : {"u1"}, status : AuditStatus]

InitBatchResult ==
    /\ EngineIdle
    /\ batch_result = NewBatchAuditResult
    /\ call = <<>>
    /\ ret = <<>>

AddResultCall ==
    /\ Len(batch_result.results) < MaxAdds
    /\ \E result \in AnyResults : batch_result' = add_result(batch_result, result)
    /\ UNCHANGED <<target_sites, enabled_auditors, max_workers, env, pc, idx, tasks, results,
                   completed, call, ret>>

NextBatchResult == AddResultCall

SpecBatchResult == InitBatchResult /\ [][NextBatchResult]_vars

(* C2: after any sequence of add_result calls, successful_audits is the number
   of accumulated results with verdict OK or WARNING, failed_audits the number
   with verdict NG or ERROR, and the two add up to the number of results. *)
C2_CountersPartitionResults ==
    /\ batch_result.successful_audits = Successes(batch_result.results)
    /\ batch_result.failed_audits = Failures(batch_result.results)
    /\ batch_result.successful_audits + batch_result.failed_audits
         = Len(batch_result.results)

(* C2 witness: results of all four verdicts were added. *)
C2_Witness ==
    /\ Len(batch_result.results) = 4
    /\ {batch_result.results[n].status : n \in 1..4} = AuditStatus

----------------------------------------------------------------------------
(* base_auditor.py: determine_status *)

MaxChecks == 6

(* failed_checks <= total_checks / 3 with Python's true division: the quotient
   is (total \div 3) + (total % 3)/3, the fraction is below 1 and failed is an
   integer, so the comparison is with the whole part. *)
AtMostAThird(failed_checks, total_checks) == failed_checks <= total_checks \div 3

(* The comparison as it would be with < in place of <= *)
determine_status_Strict(checks, has_critical_issues) ==
    IF has_critical_issues THEN "NG"
    ELSE IF \A name \in DOMAIN checks : checks[name] THEN "OK"
    ELSE LET failed_checks == Cardinality({name \in DOMAIN checks : ~checks[name]})
             total_checks == Cardinality(DOMAIN checks)
         IN IF failed_checks = 0 THEN "OK"
            ELSE IF 3 * failed_checks < total_checks THEN "WARNING"
            ELSE "NG"

(* BaseAuditor.determine_status; checks is the dict of named booleans *)
determine_status(checks, has_critical_issues) ==
    IF has_critical_issues THEN "NG"
    ELSE IF \A name \in DOMAIN checks : checks[name] THEN "OK"
    ELSE LET failed_checks == Cardinality({name \in DOMAIN checks : ~checks[name]})
             total_checks == Cardinality(DOMAIN checks)
         IN IF failed_checks = 0 THEN "OK"
            ELSE IF AtMostAThird(failed_checks, total_checks) THEN "WARNING"
            ELSE "NG"

InitClassifier ==
    /\ EngineIdle
    /\ batch_result = NewBatchAuditResult
    /\ call \in {[checks |-> c, has_critical_issues |-> b] :
                    c \in UNION {[1..n -> BOOLEAN] : n \in 0..MaxChecks}, b \in BOOLEAN}
    /\ ret = <<>>

DetermineStatus ==
    /\ ret = <<>>
    /\ ret' = <<determine_status(call.checks, call.has_critical_issues)>>
    /\ UNCHANGED <<target_sites, enabled_auditors, max_workers, env, pc, idx, tasks, results,
                   completed, batch_result, call>>

NextClassifier == DetermineStatus

SpecClassifier == InitClassifier /\ [][NextClassifier]_vars

NumFailed(checks) == Cardinality({name \in DOMAIN checks : checks[name] = FALSE})
NumChecks(checks) == Cardinality(DOMAIN checks)

(* C8: determine_status is NG when critical is true; otherwise OK when no
   check is false (the empty map included); otherwise WARNING when
   3*failed <= total and NG when 3*failed > total. *)
C8_DetermineStatusReference ==
    ret # <<>> =>
        ret[1] = IF call.has_critical_issues THEN "NG"
                 ELSE IF NumFailed(call.checks) = 0 THEN "OK"
                 ELSE IF 3 * NumFailed(call.checks) <= NumChecks(call.checks) THEN "WARNING"
                 ELSE "NG"

(* C8 witness: exactly one third of the checks failed, nothing critical, and
   the verdict is WARNING. *)
C8_Witness ==
    /\ ret = <<"WARNING">>
    /\ ~call.has_critical_issues
    /\ NumFailed(call.checks) > 0
    /\ 3 * NumFailed(call.checks) = NumChecks(call.checks)

----------------------------------------------------------------------------
(* validator.py: URLValidator.  A URL is what urlparse makes of it: the scheme,
   and the netloc as userinfo, host (its dot-separated labels) and port. *)

VALID_SCHEMES == {"http", "https"}

INVALID_DOMAINS == {<<"localhost">>, <<"127", "0", "0", "1">>, <<"0", "0", "0", "0">>}

(* parsed.netloc is empty *)
NetlocEmpty(url) == url.userinfo = "" /\ url.host = <<>> /\ url.port = ""

(* netloc.split(':')[0]: the text before the first colon, which is the
   userinfo, an @ and the host when the netloc carries a userinfo without
   password *)
SplitHostname(url) == [prefix |-> url.userinfo, labels |-> url.host]

(* URLValidator._is_private_ip: re.match of the four patterns at the start of
   the hostname text *)
_is_private_ip(hostname) ==
    LET l == hostname.labels IN
    /\ hostname.prefix = ""
    /\ \/ Len(l) >= 2 /\ l[1] = "10"
       \/ Len(l) >= 3 /\ l[1] = "172"
            /\ l[2] \in {"16", "17", "18", "19", "20", "21", "22", "23", "24", "25",
                         "26", "27", "28", "29", "30", "31"}
       \/ Len(l) >= 3 /\ l[1] = "192" /\ l[2] = "168"
       \/ Len(l) >= 2 /\ l[1] = "127"

(* URLValidator.validate_url: ok, or the ValidationError's text *)
validate_url(url) ==
    IF url.scheme \notin VALID_SCHEMES
    THEN [ok |-> FALSE, error |-> "Invalid scheme"]
    ELSE IF NetlocEmpty(url)
    THEN [ok |-> FALSE, error |-> "URL must have a valid hostname"]
    ELSE LET hostname == SplitHostname(url) IN
         IF hostname.prefix = "" /\ hostname.labels \in INVALID_DOMAINS
         THEN [ok |-> FALSE, error |-> "Local addresses are not allowed"]
         ELSE IF _is_private_ip(hostname)
         THEN [ok |-> FALSE, error |-> "Private IP addresses are not allowed"]
         ELSE [ok |-> TRUE, error |-> ""]

----------------------------------------------------------------------------
(* tls_security.py: the TLS prober.  The network of one probe run is the set
   of protocol versions the server accepts, whether its certificate verifies,
   whether the platform's default context can still speak TLS 1.0/1.1, the
   cipher suites the server picks, and the connections that time out.  The
   prober's connections are numbered in program order: 1 strict 1.3, 2 strict
   1.2, 3 strict 1.1, 4 fallback 1.1, 5 strict 1.0, 6 fallback 1.0,
   7 certificate, 8 cipher. *)

MaxConnFaults == 1

TlsVersions == {10, 11, 12, 13}
ConnSlots == 1..8

(* SSLSocket.version() *)
VersionString(v) ==
    CASE v = 13 -> "TLSv1.3" [] v = 12 -> "TLSv1.2" [] v = 11 -> "TLSv1.1" [] OTHER -> "TLSv1"

SetMax(S) == CHOOSE x \in S : \A y \in S : y <= x

(* socket.create_connection + context.wrap_socket with the context's version
   range, verification and cipher policy *)
Handshake(net, slot, lo, hi, verify, permissive) ==
    LET offered == {v \in lo..hi : permissive \/ v >= 12 \/ net.legacyStrictOk}
        common == offered \cap net.server
        failed(text) == [ok |-> FALSE, version |-> "", cipher |-> "", error |-> text]
    IN IF slot \in net.connFail THEN failed("timed out")
       ELSE IF common = {} THEN failed("handshake failure")
       ELSE IF verify /\ ~net.certOk THEN failed("certificate verify failed")
       ELSE [ok |-> TRUE, version |-> VersionString(SetMax(common)),
             cipher |-> IF SetMax(common) = 13 THEN net.cipher13 ELSE net.cipher12,
             error |-> ""]

Attempt(slot, lo, hi, verify, permissive) ==
    [slot |-> slot, lo |-> lo, hi |-> hi, verify |-> verify, permissive |-> permissive]

(* An entry of the dict _check_tls_versions returns; "" stands for a key the
   entry does not have *)
VersionEntry(supported, cipher, version, error, fallback_error, method) ==
    [supported |-> supported, cipher |-> cipher, version |-> version, error |-> error,
     fallback_error |-> fallback_error, method |-> method]

(* lines 129-165: TLS 1.3 and 1.2, one strict attempt each *)
StrictCheck(net, slot, v) ==
    LET h == Handshake(net, slot, v, v, TRUE, FALSE) IN
    [entry |-> IF h.ok
               THEN VersionEntry(TRUE, h.cipher, h.version, "", "", "")
               ELSE VersionEntry(FALSE, "", "", h.error, "", ""),
     io |-> <<Attempt(slot, v, v, TRUE, FALSE)>>]

(* 'Server negotiated X instead of V' *)
NegotiatedInstead(negotiated_version, v) ==
    CASE negotiated_version = "TLSv1.3" /\ v = 11 -> "Server negotiated TLSv1.3 instead of TLSv1.1"
      [] negotiated_version = "TLSv1.2" /\ v = 11 -> "Server negotiated TLSv1.2 instead of TLSv1.1"
      [] negotiated_version = "TLSv1.3" /\ v = 10 -> "Server negotiated TLSv1.3 instead of TLSv1.0"
      [] negotiated_version = "TLSv1.2" /\ v = 10 -> "Server negotiated TLSv1.2 instead of TLSv1.0"
      [] negotiated_version = "TLSv1.1" /\ v = 10 -> "Server negotiated TLSv1.1 instead of TLSv1.0"
      [] negotiated_version = "TLSv1" /\ v = 11 -> "Server negotiated TLSv1 instead of TLSv1.1"

(* LegacyCheck as it would be if any successful fallback handshake counted *)
LegacyCheck_AnyNegotiated(net, slot, v) ==
    LET h == Handshake(net, slot, v, v, TRUE, FALSE)
        f == Handshake(net, slot + 1, v, v + 1, FALSE, TRUE)
    IN IF h.ok
       THEN [entry |-> VersionEntry(TRUE, h.cipher, h.version, "", "", "direct_version_check"),
             io |-> <<Attempt(slot, v, v, TRUE, FALSE)>>]
       ELSE [entry |->
                IF f.ok
                THEN VersionEntry(TRUE, f.cipher, f.version, "", "", "legacy_compatibility_check")
                ELSE VersionEntry(FALSE, "", "", h.error, f.error, "both_methods_failed"),
             io |-> <<Attempt(slot, v, v, TRUE, FALSE),
                      Attempt(slot + 1, v, v + 1, FALSE, TRUE)>>]

(* LegacyCheck as it would be without the legacy compatibility attempt *)
LegacyCheck_StrictOnly(net, slot, v) ==
    LET h == Handshake(net, slot, v, v, TRUE, FALSE) IN
    [entry |-> IF h.ok
               THEN VersionEntry(TRUE, h.cipher, h.version, "", "", "direct_version_check")
               ELSE VersionEntry(FALSE, "", "", h.error, "", "direct_version_check"),
     io |-> <<Attempt(slot, v, v, TRUE, FALSE)>>]

(* LegacyCheck that records the strict attempt's error beside the mismatch *)
LegacyCheck_KeepBoth(net, slot, v) ==
    LET h == Handshake(net, slot, v, v, TRUE, FALSE)
        f == Handshake(net, slot + 1, v, v + 1, FALSE, TRUE)
    IN IF h.ok
       THEN [entry |-> VersionEntry(TRUE, h.cipher, h.version, "", "", "direct_version_check"),
             io |-> <<Attempt(slot, v, v, TRUE, FALSE)>>]
       ELSE [entry |->
                IF f.ok /\ f.version = VersionString(v)
                THEN VersionEntry(TRUE, f.cipher, f.version, "", "",
                                  "legacy_compatibility_check")
                ELSE VersionEntry(FALSE, "", "", h.error,
                                  IF f.ok THEN NegotiatedInstead(f.version, v) ELSE f.error,
                                  "both_methods_failed"),
             io |-> <<Attempt(slot, v, v, TRUE, FALSE),
                      Attempt(slot + 1, v, v + 1, FALSE, TRUE)>>]

(* lines 167-267: TLS 1.1 and 1.0, the strict attempt and then the legacy
   compatibility attempt over [v, v+1] *)
LegacyCheck(net, slot, v) ==
    LET h == Handshake(net, slot, v, v, TRUE, FALSE)
        f == Handshake(net, slot + 1, v, v + 1, FALSE, TRUE)
    IN IF h.ok
       THEN [entry |-> VersionEntry(TRUE, h.cipher, h.version, "", "", "direct_version_check"),
             io |-> <<Attempt(slot, v, v, TRUE, FALSE)>>]
       ELSE [entry |->
                IF f.ok
                THEN IF f.version = VersionString(v)
                     THEN VersionEntry(TRUE, f.cipher, f.version, "", "",
                                       "legacy_compatibility_check")
                     ELSE VersionEntry(FALSE, "", "", NegotiatedInstead(f.version, v), "",
                                       "legacy_compatibility_check")
                ELSE VersionEntry(FALSE, "", "", h.error, f.error, "both_methods_failed"),
             io |-> <<Attempt(slot, v, v, TRUE, FALSE),
                      Attempt(slot + 1, v, v + 1, FALSE, TRUE)>>]

(* _check_tls_versions as it would be if the first version whose probing
   failed ended the probing: the later versions are not attempted *)
_check_tls_versions_StopAtFailure(net) ==
    LET skipped == [entry |-> VersionEntry(FALSE, "", "", "not probed", "", ""), io |-> <<>>]
        c13 == StrictCheck(net, 1, 13)
        c12 == IF c13.entry.supported THEN StrictCheck(net, 2, 12) ELSE skipped
        c11 == IF c12.entry.supported THEN LegacyCheck(net, 3, 11) ELSE skipped
        c10 == IF c11.entry.supported THEN LegacyCheck(net, 5, 10) ELSE skipped
    IN [results |-> ("TLSv1.3" :> c13.entry) @@ ("TLSv1.2" :> c12.entry)
                     @@ ("TLSv1.1" :> c11.entry) @@ ("TLSv1.0" :> c10.entry),
        io |-> c13.io \o c12.io \o c11.io \o c10.io]

(* TLSSecurityAuditor._check_tls_versions *)
_check_tls_versions(net) ==
    LET c13 == StrictCheck(net, 1, 13)
        c12 == StrictCheck(net, 2, 12)
        c11 == LegacyCheck(net, 3, 11)
        c10 == LegacyCheck(net, 5, 10)
    IN [results |-> ("TLSv1.3" :> c13.entry) @@ ("TLSv1.2" :> c12.entry)
                     @@ ("TLSv1.1" :> c11.entry) @@ ("TLSv1.0" :> c10.entry),
        io |-> c13.io \o c12.io \o c11.io \o c10.io]

(* TLSSecurityAuditor._get_certificate_info *)
_get_certificate_info(net) ==
    [valid |-> Handshake(net, 7, 10, 13, TRUE, FALSE).ok]

StrongFragments == {"AES256-GCM", "AES128-GCM", "CHACHA20"}

(* fragment in cipher_name, for the cipher names of the model *)
FragmentIn(fragment, cipher_name) ==
    \/ fragment = "AES256-GCM" /\ cipher_name = "ECDHE-RSA-AES256-GCM-SHA384"
    \/ fragment = "CHACHA20" /\ cipher_name = "TLS_CHACHA20_POLY1305_SHA256"

(* TLSSecurityAuditor._get_cipher_info *)
_get_cipher_info(net) ==
    LET h == Handshake(net, 8, 10, 13, TRUE, FALSE) IN
    IF h.ok
    THEN [cipher_name |-> h.cipher,
          has_strong_ciphers |-> \E fragment \in StrongFragments : FragmentIn(fragment, h.cipher)]
    ELSE [cipher_name |-> "", has_strong_ciphers |-> FALSE]

NoMessage == [prefix |-> "", text |-> ""]

(* BaseAuditor.create_result *)
create_result(audit_type, url, status, details, error_message) ==
    [audit_type |-> audit_type, url |-> url, status |-> status, details |-> details,
     error_message |-> error_message]

Returned(result, io) == [raised |-> FALSE, text |-> "", value |-> result, io |-> io]
Raised(text, io) ==
    [raised |-> TRUE, text |-> text,
     value |-> create_result("", "", "ERROR", <<>>, NoMessage), io |-> io]

(* a TLS audit without the test of the scheme *)
tls_audit_AnyScheme(url, net) ==
    LET tls_support == _check_tls_versions(net)
        checks == [tls13_supported |-> tls_support.results["TLSv1.3"].supported,
                   old_tls_disabled |-> ~(\/ tls_support.results["TLSv1.0"].supported
                                          \/ tls_support.results["TLSv1.1"].supported)]
    IN Returned(create_result("tls_security", url,
                              determine_status(checks, ~checks.old_tls_disabled),
                              [tls_version_support |-> tls_support.results],
                              NoMessage),
                tls_support.io)

(* a TLS audit that answers ERROR as soon as one of its connections failed *)
tls_audit_ErrorOnFailedConnection(url, net) ==
    IF url.scheme # "https"
    THEN Returned(create_result("tls_security", url, "NG", [error |-> "Not an HTTPS URL"],
                                NoMessage), <<>>)
    ELSE LET tls_support == _check_tls_versions(net) IN
         Returned(create_result("tls_security", url,
                                IF \A i \in DOMAIN tls_support.io :
                                      Handshake(net, tls_support.io[i].slot, tls_support.io[i].lo,
                                                tls_support.io[i].hi, tls_support.io[i].verify,
                                                tls_support.io[i].permissive).ok
                                THEN "OK" ELSE "ERROR",
                                [tls_version_support |-> tls_support.results],
                                NoMessage),
                  tls_support.io)

(* TLSSecurityAuditor.audit *)
tls_audit(url, net) ==
    IF url.scheme # "https"
    THEN Returned(create_result("tls_security", url, "NG", [error |-> "Not an HTTPS URL"],
                                NoMessage), <<>>)
    ELSE IF url.port = "abc"
    THEN \* parsed.port raises ValueError, caught at line 97
         Returned(create_result("tls_security", url, "ERROR", <<>>,
                                [prefix |-> "", text |-> "Port could not be cast to integer"]),
                  <<>>)
    ELSE LET tls_support == _check_tls_versions(net)
             cert_info == _get_certificate_info(net)
             cipher_info == _get_cipher_info(net)
             checks == [tls13_supported |-> tls_support.results["TLSv1.3"].supported,
                        old_tls_disabled |-> ~(\/ tls_support.results["TLSv1.0"].supported
                                               \/ tls_support.results["TLSv1.1"].supported),
                        cert_valid |-> cert_info.valid,
                        strong_ciphers |-> cipher_info.has_strong_ciphers]
             critical_issues == ~checks.old_tls_disabled
         IN Returned(create_result("tls_security", url,
                                   determine_status(checks, critical_issues),
                                   [tls_version_support |-> tls_support.results,
                                    certificate_info |-> cert_info,
                                    cipher_info |-> cipher_info],
                                   NoMessage),
                     tls_support.io \o <<Attempt(7, 10, 13, TRUE, FALSE),
                                         Attempt(8, 10, 13, TRUE, FALSE)>>)

----------------------------------------------------------------------------
(* encryption_check.py: the HTTPS-enforcement prober.  Each of its four
   requests goes through BaseAuditor.safe_request, which turns every failure
   of the request (timeout, refused connection, TLS failure) into None. *)

PlainResponses == {"none", "redirect_https", "redirect_other", "ok", "notfound", "server_error"}
FollowedResponses == {"none", "final_https", "final_http"}
HttpsResponses == {"none", "ok"}

(* EncryptionCheckAuditor._test_http_access *)
_test_http_access(response) ==
    [blocked |-> response \in {"none", "notfound", "server_error"}]

(* EncryptionCheckAuditor._test_https_redirect *)
_test_https_redirect(response) ==
    [redirects_to_https |-> response = "final_https"]

(* EncryptionCheckAuditor._test_error_page_redirect *)
_test_error_page_redirect(response) ==
    [proper_redirect |-> response \in {"none", "notfound", "redirect_https"}]

(* EncryptionCheckAuditor._check_ssl_certificate *)
_check_ssl_certificate(response) ==
    [valid |-> response # "none"]

(* EncryptionCheckAuditor.audit *)
encryption_audit(url, http) ==
    LET http_test == _test_http_access(http.plain)
        https_redirect_test == _test_https_redirect(http.followed)
        error_redirect_test == _test_error_page_redirect(http.missing)
        cert_check == _check_ssl_certificate(http.https)
        checks == [http_blocked |-> http_test.blocked,
                   https_redirect |-> https_redirect_test.redirects_to_https,
                   error_redirect_proper |-> error_redirect_test.proper_redirect,
                   ssl_valid |-> cert_check.valid]
        critical_issues == ~checks.https_redirect \/ ~checks.ssl_valid
    IN Returned(create_result("encryption_check", url,
                              determine_status(checks, critical_issues),
                              [http_access_test |-> http_test,
                               https_redirect_test |-> https_redirect_test,
                               error_redirect_test |-> error_redirect_test,
                               ssl_certificate |-> cert_check],
                              NoMessage),
                <<"GET http", "GET http following redirects", "GET http missing page",
                  "GET https">>)

(* The audit method of the other probers, by its outcome: it returns a
   verdict computed from its checks, its own handler catches a fault and
   returns ERROR with the fault's text, or a fault escapes it. *)
FaultTexts == {"timed out"}

Bodies ==
    {[how |-> "returns", status |-> s, text |-> ""] : s \in {"OK", "WARNING", "NG"}}
    \cup {[how |-> h, status |-> "ERROR", text |-> t] : h \in {"caught", "raises"}, t \in FaultTexts}

generic_audit(audit_type, url, body) ==
    IF body.how = "raises" THEN Raised(body.text, <<"GET">>)
    ELSE Returned(create_result(audit_type, url, body.status, <<>>,
                                [prefix |-> "", text |-> body.text]), <<"GET">>)

(* self.audit(url), dispatched on the prober's class *)
audit(c) ==
    CASE c.kind = "tls_security" -> tls_audit(c.url, c.net)
      [] c.kind = "encryption_check" -> encryption_audit(c.url, c.http)
      [] OTHER -> generic_audit(c.kind, c.url, c.body)

(* the AuditResult the two handlers of execute_audit build *)
WrapperError(c, prefix, text) ==
    Returned(create_result(c.kind, c.url, "ERROR", <<>>, [prefix |-> prefix, text |-> text]),
             <<>>)

(* execute_audit without the call of URLValidator.validate_url *)
execute_audit_NoValidation(c) ==
    LET r == audit(c) IN
    IF r.raised THEN [WrapperError(c, "Unexpected error: ", r.text) EXCEPT !.io = r.io]
    ELSE r

(* execute_audit without its handler for Exception *)
execute_audit_NoCatchAll(c) ==
    LET v == validate_url(c.url) IN
    IF ~v.ok THEN WrapperError(c, "Validation error: ", v.error)
    ELSE audit(c)

(* BaseAuditor.execute_audit *)
execute_audit(c) ==
    LET v == validate_url(c.url) IN
    IF ~v.ok THEN WrapperError(c, "Validation error: ", v.error)
    ELSE LET r == audit(c) IN
         IF r.raised THEN [WrapperError(c, "Unexpected error: ", r.text) EXCEPT !.io = r.io]
         ELSE r

(* The calls of the probe specification *)
Url(scheme, userinfo, host, port) ==
    [scheme |-> scheme, userinfo |-> userinfo, host |-> host, port |-> port]

ProbeUrls ==
    {Url("https", "", <<"example", "com">>, ""),
     Url("http", "", <<"example", "com">>, ""),
     Url("https", "", <<"example", "com">>, "abc"),
     Url("https", "", <<"10", "0", "0", "5">>, ""),
     Url("ftp", "", <<"example", "com">>, "")}

Nets ==
    [server : SUBSET TlsVersions, certOk : BOOLEAN, legacyStrictOk : BOOLEAN,
     cipher13 : {"TLS_AES_256_GCM_SHA384", "TLS_CHACHA20_POLY1305_SHA256"},
     cipher12 : {"ECDHE-RSA-AES256-GCM-SHA384", "AES128-SHA"},
     connFail : {S \in SUBSET ConnSlots : Cardinality(S) <= MaxConnFaults}]

Https == [plain : PlainResponses, followed : FollowedResponses,
          missing : PlainResponses, https : HttpsResponses]

DefaultNet ==
    [server |-> {12, 13}, certOk |-> TRUE, legacyStrictOk |-> FALSE,
     cipher13 |-> "TLS_AES_256_GCM_SHA384", cipher12 |-> "ECDHE-RSA-AES256-GCM-SHA384",
     connFail |-> {}]
DefaultHttp ==
    [plain |-> "redirect_https", followed |-> "final_https", missing |-> "notfound",
     https |-> "ok"]
DefaultBody == [how |-> "returns", status |-> "OK", text |-> ""]

ProbeCall(kind, url, net, http, body) ==
    [kind |-> kind, url |-> url, net |-> net, http |-> http, body |-> body]

ProbeCalls ==
    {ProbeCall("tls_security", u, n, DefaultHttp, DefaultBody) : u \in ProbeUrls, n \in Nets}
    \cup {ProbeCall("encryption_check", u, DefaultNet, h, DefaultBody) :
            u \in ProbeUrls, h \in Https}
    \cup {ProbeCall(k, u, DefaultNet, DefaultHttp, b) :
            k \in {"security_headers", "access_control"}, u \in ProbeUrls, b \in Bodies}

InitProbe ==
    /\ EngineIdle
    /\ batch_result = NewBatchAuditResult
    /\ call \in ProbeCalls
    /\ ret = <<>>

ExecuteAudit ==
    /\ ret = <<>>
    /\ ret' = <<execute_audit(call)>>
    /\ UNCHANGED <<target_sites, enabled_auditors, max_workers, env, pc, idx, tasks, results,
                   completed, batch_result, call>>

NextProbe == ExecuteAudit

SpecProbe == InitProbe /\ [][NextProbe]_vars

(* What the call's environment puts in the probe's way *)
ValidationFails(c) == ~validate_url(c.url).ok

BodyRaises(c) ==
    c.kind \notin {"tls_security", "encryption_check"} /\ c.body.how = "raises"

BodyCatches(c) ==
    \/ c.kind \notin {"tls_security", "encryption_check"} /\ c.body.how = "caught"
    \/ c.kind = "tls_security" /\ c.url.scheme = "https" /\ c.url.port = "abc"

(* a connection the TLS prober attempted failed (timeout, handshake or
   certificate failure), or a request of the HTTPS prober failed *)
ConnectionFailed(c, r) ==
    \/ /\ c.kind = "tls_security"
       /\ \E i \in DOMAIN r.io :
             ~Handshake(c.net, r.io[i].slot, r.io[i].lo, r.io[i].hi, r.io[i].verify,
                        r.io[i].permissive).ok
    \/ /\ c.kind = "encryption_check"
       /\ "none" \in {c.http.plain, c.http.followed, c.http.missing, c.http.https}

FaultOccurred(c, r) ==
    \/ ValidationFails(c)
    \/ ~ValidationFails(c) /\ (BodyRaises(c) \/ BodyCatches(c) \/ ConnectionFailed(c, r))

(* a fault that reaches the handler of audit or of execute_audit *)
HandledFault(c) ==
    \/ ValidationFails(c)
    \/ ~ValidationFails(c) /\ (BodyRaises(c) \/ BodyCatches(c))

(* C6: execute_audit never raises: a fault of URL validation or one that
   escapes the probe body comes back as an ERROR result whose error message
   carries the fault's text, for every probe kind. *)
C6_ExecuteAuditNeverRaises ==
    ret # <<>> =>
        /\ ~ret[1].raised
        /\ ret[1].value.audit_type = call.kind
        /\ ValidationFails(call) =>
              /\ ret[1].value.status = "ERROR"
              /\ ret[1].value.error_message =
                    [prefix |-> "Validation error: ", text |-> validate_url(call.url).error]
        /\ ~ValidationFails(call) /\ BodyRaises(call) =>
              /\ ret[1].value.status = "ERROR"
              /\ ret[1].value.error_message =
                    [prefix |-> "Unexpected error: ", text |-> call.body.text]

C6_Witness ==
    /\ ret # <<>>
    /\ ~ValidationFails(call)
    /\ BodyRaises(call)
    /\ ret[1].value.status = "ERROR"
    /\ ret[1].value.error_message.text = "timed out"

(* C7 as stated: the verdict is ERROR if and only if a fault (validation
   failure, connect/handshake/timeout failure, unexpected exception) occurred
   while the probe ran. *)
C7_ErrorIffFault ==
    ret # <<>> => (ret[1].value.status = "ERROR" <=> FaultOccurred(call, ret[1]))

(* C7 amended: the verdict is ERROR if and only if URL validation failed or a
   fault reached the handler of audit or of execute_audit, so a probe without
   fault never has verdict ERROR; a connection or request that fails inside
   the TLS prober's and the HTTPS prober's helpers is recorded as a failed
   check and the verdict is the classifier's, never ERROR. *)
C7_ErrorIffHandledFault ==
    ret # <<>> =>
        /\ ret[1].value.status = "ERROR" <=> HandledFault(call)
        /\ ret[1].value.status = "ERROR" => FaultOccurred(call, ret[1])
        /\ ~HandledFault(call) /\ ConnectionFailed(call, ret[1]) =>
              ret[1].value.status \in {"OK", "WARNING", "NG"}

C7_Witness ==
    /\ ret # <<>>
    /\ call.kind = "tls_security"
    /\ ~HandledFault(call)
    /\ call.net.connFail = {1}
    /\ ret[1].io # <<>>
    /\ ret[1].value.status \in {"WARNING", "NG"}

(* The case of C10: the TLS prober ran against a reachable server with a
   valid certificate that accepts TLS 1.2 and 1.3 only *)
OnlyModernServer ==
    /\ ret # <<>>
    /\ call.kind = "tls_security"
    /\ ~HandledFault(call)
    /\ call.url.scheme = "https"
    /\ call.net.server = {12, 13}
    /\ call.net.certOk
    /\ call.net.connFail = {}

ModernSupported(tls_support) ==
    \A key \in {"TLSv1.2", "TLSv1.3"} :
        /\ tls_support[key].supported
        /\ tls_support[key].cipher # ""
        /\ tls_support[key].version = key

(* C10 as stated: against a server accepting TLS 1.2 and 1.3 only, the
   outcomes for 1.0 and 1.1 are unsupported with both the primary and the
   fallback error, and those for 1.2 and 1.3 are supported with a cipher. *)
C10_LegacyOutcomesKeepBothErrors ==
    OnlyModernServer =>
        LET tls_support == ret[1].value.details.tls_version_support IN
        /\ \A key \in {"TLSv1.0", "TLSv1.1"} :
              /\ ~tls_support[key].supported
              /\ tls_support[key].error # ""
              /\ tls_support[key].fallback_error # ""
        /\ ModernSupported(tls_support)

(* C10 amended: against such a server the outcomes for 1.2 and 1.3 are
   supported with the negotiated cipher; the outcome for 1.0 is unsupported
   with the primary and the fallback error; the outcome for 1.1 is unsupported
   with the single error that the server negotiated TLSv1.2 instead, found by
   the fallback attempt, and no fallback error. *)
C10_LegacyOutcomesAgainstModernServer ==
    OnlyModernServer =>
        LET tls_support == ret[1].value.details.tls_version_support IN
        /\ ~tls_support["TLSv1.0"].supported
        /\ tls_support["TLSv1.0"].error # ""
        /\ tls_support["TLSv1.0"].fallback_error # ""
        /\ tls_support["TLSv1.0"].method = "both_methods_failed"
        /\ ~tls_support["TLSv1.1"].supported
        /\ tls_support["TLSv1.1"].error = "Server negotiated TLSv1.2 instead of TLSv1.1"
        /\ tls_support["TLSv1.1"].fallback_error = ""
        /\ tls_support["TLSv1.1"].method = "legacy_compatibility_check"
        /\ ModernSupported(tls_support)

C10_Witness ==
    /\ OnlyModernServer
    /\ ret[1].value.details.tls_version_support["TLSv1.1"].method = "legacy_compatibility_check"
    /\ ret[1].value.details.tls_version_support["TLSv1.3"].supported

----------------------------------------------------------------------------
(* compliance_evaluator.py: ComplianceEvaluator.  Details are dicts: a record
   whose domain is the keys present.  The detail texts are glosses of the
   Japanese texts of the source. *)

MaxSiteResults == 2

EmptyDict == [key \in {} |-> key]

(* dict.get(key, default) *)
Get(d, key, default) == IF key \in DOMAIN d THEN d[key] ELSE default

DIAGNOSIS_ERROR == "diagnosis error"

(* result_by_type as it would be if it were not keyed by audit_type: every
   rule is handed the last result of the list *)
result_by_type_LastOfAny(site_results, audit_type) ==
    IF site_results = <<>> THEN <<>> ELSE <<site_results[Len(site_results)]>>

(* lines 66-69: result_by_type keeps, for each audit_type, the last result of
   the list; .get gives None (the empty sequence) for a type without result *)
result_by_type(site_results, audit_type) ==
    LET I == {i \in DOMAIN site_results : site_results[i].audit_type = audit_type} IN
    IF I = {} THEN <<>> ELSE <<site_results[SetMax(I)]>>

(* if not result or result.status.value == 'ERROR' *)
Unscored(result) == result = <<>> \/ result[1].status = "ERROR"

(* version.split('.') and int() of the parts, for the versions of the model *)
VersionParts(version) ==
    CASE version = "3.4.1" -> [ok |-> TRUE, major |-> 3, minor |-> 4, patch |-> 1]
      [] version = "3.5.0" -> [ok |-> TRUE, major |-> 3, minor |-> 5, patch |-> 0]
      [] OTHER -> [ok |-> FALSE, major |-> 0, minor |-> 0, patch |-> 0]

JqueryAtLeast35(version) ==
    LET p == VersionParts(version) IN
    IF ~p.ok THEN <<0, "version parse error">>
    ELSE IF p.major > 3 \/ (p.major = 3 /\ p.minor > 5)
            \/ (p.major = 3 /\ p.minor = 5 /\ p.patch >= 0)
    THEN <<1, version>>
    ELSE <<0, version>>

_evaluate_jquery_version(result) ==
    IF Unscored(result) THEN <<0, DIAGNOSIS_ERROR>>
    ELSE LET version == Get(Get(result[1].details, "jquery", EmptyDict), "version", "") IN
         IF version = "" THEN <<1, "not used">> ELSE JqueryAtLeast35(version)

_evaluate_jquery_35_or_higher(result) ==
    IF Unscored(result) THEN <<0, DIAGNOSIS_ERROR>>
    ELSE LET version == Get(Get(result[1].details, "jquery", EmptyDict), "version", "") IN
         IF version = "" THEN <<0, "unused">> ELSE JqueryAtLeast35(version)

_evaluate_encryption_check(result) ==
    IF Unscored(result) THEN <<0, DIAGNOSIS_ERROR>>
    ELSE LET http_test == Get(result[1].details, "http_access_test", EmptyDict)
             https_redirect == Get(result[1].details, "https_redirect_test", EmptyDict)
         IN IF Get(http_test, "blocked", FALSE) \/ Get(https_redirect, "redirects_to_https", FALSE)
            THEN <<1, "HTTP access restricted">>
            ELSE <<0, "HTTP access possible">>

_evaluate_tls13_support(result) ==
    IF Unscored(result) THEN <<0, DIAGNOSIS_ERROR>>
    ELSE LET tls_support == Get(result[1].details, "tls_version_support", EmptyDict)
             tls13_info == Get(tls_support, "TLSv1.3", EmptyDict)
         IN IF Get(tls13_info, "supported", FALSE)
            THEN <<1, Get(tls13_info, "version", "TLSv1.3")>>
            ELSE <<0, "TLS1.3 not supported">>

(* _evaluate_old_tls_disabled without its first test *)
_evaluate_old_tls_disabled_NoGuard(result) ==
    LET details == IF result = <<>> THEN EmptyDict ELSE result[1].details
        tls_support == Get(details, "tls_version_support", EmptyDict)
        tls10_supported == Get(Get(tls_support, "TLSv1.0", EmptyDict), "supported", FALSE)
        tls11_supported == Get(Get(tls_support, "TLSv1.1", EmptyDict), "supported", FALSE)
    IN IF ~tls10_supported /\ ~tls11_supported
       THEN <<1, "TLS1.1 and older disabled">>
       ELSE <<0, "enabled old versions">>

_evaluate_old_tls_disabled(result) ==
    IF Unscored(result) THEN <<0, DIAGNOSIS_ERROR>>
    ELSE LET tls_support == Get(result[1].details, "tls_version_support", EmptyDict)
             tls10_supported == Get(Get(tls_support, "TLSv1.0", EmptyDict), "supported", FALSE)
             tls11_supported == Get(Get(tls_support, "TLSv1.1", EmptyDict), "supported", FALSE)
         IN IF ~tls10_supported /\ ~tls11_supported
            THEN <<1, "TLS1.1 and older disabled">>
            ELSE <<0, "enabled old versions">>

(* The keyword rules S6-1..S6-3: the keyword's search result when there is
   one, else the findings of the site search (and, for login, the accessible
   dangerous paths); findings and paths are the sets of indicators they hold *)
KeywordControl(result, keyword, indicators, usePaths) ==
    IF Unscored(result) THEN <<0, DIAGNOSIS_ERROR>>
    ELSE LET search_results == Get(result[1].details, "keyword_search_results", EmptyDict)
             keyword_result == Get(search_results, keyword, EmptyDict)
             sensitive_findings ==
                 Get(Get(result[1].details, "site_search", EmptyDict), "sensitive_findings", {})
             accessible_paths ==
                 Get(Get(result[1].details, "dangerous_paths", EmptyDict), "accessible_paths", {})
         IN IF keyword_result # EmptyDict
            THEN IF Get(keyword_result, "total_results", 0) = 0
                 THEN <<1, "controlled">> ELSE <<0, "detected by search">>
            ELSE IF sensitive_findings \cap indicators = {}
                    /\ (usePaths => accessible_paths \cap indicators = {})
                 THEN <<1, "controlled">> ELSE <<0, "detected">>

_evaluate_index_of_control(result) ==
    KeywordControl(result, "index of",
                   {"index of", "directory listing", "parent directory", "apache", "nginx"},
                   FALSE)

_evaluate_login_control(result) == KeywordControl(result, "login", {"login"}, TRUE)

_evaluate_password_control(result) ==
    KeywordControl(result, "password",
                   {"password", ".env", "config.php", "wp-config", "database.sql", "backup"},
                   FALSE)

_evaluate_server_access_control(result) ==
    IF Unscored(result) THEN <<0, DIAGNOSIS_ERROR>>
    ELSE LET ip_blocked == Get(Get(result[1].details, "ip_access", EmptyDict), "blocked", FALSE)
             subdomain_secure ==
                 Get(Get(result[1].details, "subdomain_access", EmptyDict), "secure", TRUE)
             paths_blocked ==
                 Get(Get(result[1].details, "dangerous_paths", EmptyDict), "blocked", FALSE)
         IN IF ip_blocked /\ subdomain_secure /\ paths_blocked
            THEN <<1, "access controlled">> ELSE <<0, "access control issues">>

HeaderConfigured(result, header) ==
    IF Unscored(result) THEN <<0, DIAGNOSIS_ERROR>>
    ELSE LET headers == Get(result[1].details, "security_headers", EmptyDict)
             info == Get(headers, header, EmptyDict)
         IN IF Get(info, "configured", FALSE) THEN <<1, "configured">> ELSE <<0, "not set">>

_evaluate_x_frame_options(result) == HeaderConfigured(result, "X-Frame-Options")
_evaluate_hsts(result) == HeaderConfigured(result, "Strict-Transport-Security")
_evaluate_csp(result) == HeaderConfigured(result, "Content-Security-Policy")

Rules == {"S1-1", "S1-2", "S2", "S3", "S4", "S6-1", "S6-2", "S6-3", "S7", "S8-1", "S8-2", "S8-3"}

(* the audit_type _evaluate_single_site hands to each rule *)
RuleKind(rule) ==
    CASE rule \in {"S1-1", "S1-2"} -> "component_vulnerability"
      [] rule = "S2" -> "encryption_check"
      [] rule \in {"S3", "S4"} -> "tls_security"
      [] rule \in {"S6-1", "S6-2", "S6-3", "S7"} -> "access_control"
      [] OTHER -> "security_headers"

EvaluateRule(rule, result) ==
    CASE rule = "S1-1" -> _evaluate_jquery_version(result)
      [] rule = "S1-2" -> _evaluate_jquery_35_or_higher(result)
      [] rule = "S2" -> _evaluate_encryption_check(result)
      [] rule = "S3" -> _evaluate_tls13_support(result)
      [] rule = "S4" -> _evaluate_old_tls_disabled(result)
      [] rule = "S6-1" -> _evaluate_index_of_control(result)
      [] rule = "S6-2" -> _evaluate_login_control(result)
      [] rule = "S6-3" -> _evaluate_password_control(result)
      [] rule = "S7" -> _evaluate_server_access_control(result)
      [] rule = "S8-1" -> _evaluate_x_frame_options(result)
      [] rule = "S8-2" -> _evaluate_hsts(result)
      [] OTHER -> _evaluate_csp(result)

(* ComplianceEvaluator._evaluate_single_site *)
_evaluate_single_site(url, site_results) ==
    [url |-> url,
     evaluations |->
        [rule \in Rules |-> EvaluateRule(rule, result_by_type(site_results, RuleKind(rule)))[1]],
     details |->
        [rule \in Rules |-> EvaluateRule(rule, result_by_type(site_results, RuleKind(rule)))[2]]]

(* The results of one site the evaluator is given *)
CvDetails == {EmptyDict} \cup {[jquery |-> [version |-> v]] : v \in {"3.4.1", "3.5.0", "3.x"}}

EncDetails ==
    {[http_access_test |-> [blocked |-> b], https_redirect_test |-> [redirects_to_https |-> r]] :
        b \in BOOLEAN, r \in BOOLEAN}

TlsDetails ==
    {[error |-> "Not an HTTPS URL"]}
    \cup {[tls_version_support |->
              [key \in {"TLSv1.0", "TLSv1.1", "TLSv1.3"} |->
                  [supported |-> IF key = "TLSv1.0" THEN s10
                                 ELSE IF key = "TLSv1.1" THEN s11 ELSE s13,
                   version |-> key]]] :
            s10 \in BOOLEAN, s11 \in BOOLEAN, s13 \in BOOLEAN}

Counted(n) == [total_results |-> n]

AcDetails ==
    {EmptyDict,
     [keyword_search_results |-> [login |-> Counted(0), password |-> Counted(0)],
      ip_access |-> [blocked |-> TRUE], subdomain_access |-> [secure |-> TRUE],
      dangerous_paths |-> [blocked |-> TRUE, accessible_paths |-> {}]],
     [keyword_search_results |-> [login |-> Counted(2), password |-> Counted(0)],
      ip_access |-> [blocked |-> FALSE], subdomain_access |-> [secure |-> TRUE],
      dangerous_paths |-> [blocked |-> TRUE, accessible_paths |-> {}]],
     [site_search |-> [sensitive_findings |-> {"backup", "nginx"}],
      ip_access |-> [blocked |-> TRUE], subdomain_access |-> [secure |-> FALSE],
      dangerous_paths |-> [blocked |-> TRUE, accessible_paths |-> {}]],
     [site_search |-> [sensitive_findings |-> {}],
      ip_access |-> [blocked |-> TRUE], subdomain_access |-> [secure |-> TRUE],
      dangerous_paths |-> [blocked |-> FALSE, accessible_paths |-> {"login"}]]}

ShDetails ==
    {[security_headers |->
         [header \in {"X-Frame-Options", "Strict-Transport-Security", "Content-Security-Policy"}
             |-> [configured |-> IF header = "X-Frame-Options" THEN x
                                 ELSE IF header = "Strict-Transport-Security" THEN h ELSE c]]] :
        x \in BOOLEAN, h \in BOOLEAN, c \in BOOLEAN}

DetailsOf(audit_type) ==
    CASE audit_type = "component_vulnerability" -> CvDetails
      [] audit_type = "encryption_check" -> EncDetails
      [] audit_type = "tls_security" -> TlsDetails
      [] audit_type = "access_control" -> AcDetails
      [] OTHER -> ShDetails

SiteResult(audit_type, status, details) ==
    [audit_type |-> audit_type, url |-> "u1", status |-> status, details |-> details]

(* scored results carry details; an ERROR result carries none, or details
   left over from a scored run *)
SiteResults ==
    UNION {{SiteResult(t, s, d) : s \in {"OK", "NG"}, d \in DetailsOf(t)}
             \cup {SiteResult(t, "ERROR", EmptyDict),
                   SiteResult(t, "ERROR", CHOOSE d \in DetailsOf(t) : d # EmptyDict)} :
           t \in auditor_classes}

InitCompliance ==
    /\ EngineIdle
    /\ batch_result = NewBatchAuditResult
    /\ call \in {[url |-> "u1", results |-> rs] : rs \in SeqsUpTo(SiteResults, MaxSiteResults)}
    /\ ret = <<>>

EvaluateSingleSite ==
    /\ ret = <<>>
    /\ ret' = <<_evaluate_single_site(call.url, call.results)>>
    /\ UNCHANGED <<target_sites, enabled_auditors, max_workers, env, pc, idx, tasks, results,
                   completed, batch_result, call>>

NextCompliance == EvaluateSingleSite

SpecCompliance == InitCompliance /\ [][NextCompliance]_vars

(* C9: for each of the 12 rules, when the site's result of the probe kind the
   rule depends on (the last one of that kind in the list) has verdict ERROR,
   or the site has no result of that kind, the rule's value is 0 and its
   detail is the fixed diagnosis-error text. *)
C9_UnscoredRulesOnProbeError ==
    ret # <<>> =>
        \A rule \in Rules :
            LET I == {i \in DOMAIN call.results : call.results[i].audit_type = RuleKind(rule)} IN
            (I = {} \/ call.results[SetMax(I)].status = "ERROR") =>
                /\ ret[1].evaluations[rule] = 0
                /\ ret[1].details[rule] = DIAGNOSIS_ERROR

C9_Witness ==
    /\ ret # <<>>
    /\ Len(call.results) = 2
    /\ call.results[1].audit_type = "tls_security"
    /\ call.results[1].status = "ERROR"
    /\ call.results[1].details # EmptyDict
    /\ call.results[2].audit_type = "security_headers"
    /\ ret[1].evaluations["S4"] = 0
    /\ ret[1].details["S3"] = DIAGNOSIS_ERROR
    /\ ret[1].details["S2"] = DIAGNOSIS_ERROR
    /\ ret[1].evaluations["S8-1"] = 1

----------------------------------------------------------------------------
(* security_headers.py and BatchAuditResult.get_summary_by_site: the verdict
   of the headers prober and the per-target summary.  The response of the
   prober's one request is None (received FALSE) or carries the set of the
   required headers that are present with a non-blank value. *)

required_headers ==
    {"X-Frame-Options", "Strict-Transport-Security", "Content-Security-Policy",
     "X-Content-Type-Options", "Referrer-Policy", "X-XSS-Protection"}

critical_headers == {"X-Frame-Options", "Strict-Transport-Security", "Content-Security-Policy"}

(* SecurityHeadersAuditor._check_security_header *)
_check_security_header(headers, header_name) == [configured |-> header_name \in headers]

(* lines 120-125 as they would be if only X-Frame-Options and
   Content-Security-Policy were critical *)
critical_headers_missing_NoHsts(checks) ==
    ~(checks["X-Frame-Options"] /\ checks["Content-Security-Policy"])

(* lines 120-125 *)
critical_headers_missing(checks) == ~(\A header_name \in critical_headers : checks[header_name])

(* SecurityHeadersAuditor.audit, as the outcome of the audit method *)
security_headers_body(response) ==
    IF ~response.received
    THEN [how |-> "caught", status |-> "ERROR", text |-> "Failed to fetch HTTP response"]
    ELSE LET checks == [header_name \in required_headers |->
                           _check_security_header(response.headers, header_name).configured]
         IN [how |-> "returns",
             status |-> determine_status(checks, critical_headers_missing(checks)),
             text |-> ""]

(* BatchAuditResult.get_summary_by_site *)
get_summary_by_site(b) ==
    LET urls == {b.results[i].url : i \in DOMAIN b.results}
        group(url) == {i \in DOMAIN b.results : b.results[i].url = url}
        count(url, status) == Cardinality({i \in group(url) : b.results[i].status = status})
    IN [url \in urls |->
          [total_audits |-> Cardinality(group(url)),
           overall_status |->
              IF count(url, "ERROR") > 0 THEN "ERROR"
              ELSE IF count(url, "NG") > 0 THEN "NG"
              ELSE IF count(url, "WARNING") > 0 THEN "WARNING"
              ELSE "OK",
           status_counts |->
              [status \in {st \in AuditStatus : count(url, st) > 0} |-> count(url, status)]]]

(* The calls of the summary specification: one site probed by the TLS and the
   headers prober and, when `extra` holds a body, by the access-control prober
   after them; `other` is the result of a second site, when there is one. *)
SiteUrl == Url("https", "", <<"example", "com">>, "")
OtherUrl == Url("https", "", <<"example", "org">>, "")

SummaryNets ==
    {n \in Nets : n.connFail = {} /\ ~n.legacyStrictOk /\ n.cipher12 = DefaultNet.cipher12}

Responses ==
    {[received |-> FALSE, headers |-> {}]}
    \cup {[received |-> TRUE, headers |-> hs] : hs \in SUBSET required_headers}

OptionalBody == {<<>>} \cup {<<b>> : b \in Bodies}

SummaryCalls ==
    [net : SummaryNets, response : Responses, extra : OptionalBody,
     other : {<<>>, <<"OK">>, <<"ERROR">>}]

(* the results audit_single_site gathers for the site of the call *)
SiteProbeResults(c) ==
    <<execute_audit(ProbeCall("tls_security", SiteUrl, c.net, DefaultHttp, DefaultBody)).value,
      execute_audit(ProbeCall("security_headers", SiteUrl, DefaultNet, DefaultHttp,
                              security_headers_body(c.response))).value>>
    \o (IF c.extra = <<>> THEN <<>>
        ELSE <<execute_audit(ProbeCall("access_control", SiteUrl, DefaultNet, DefaultHttp,
                                       c.extra[1])).value>>)

OtherSiteResults(c) ==
    IF c.other = <<>> THEN <<>>
    ELSE <<create_result("tls_security", OtherUrl, c.other[1], <<>>, NoMessage)>>

InitSummary ==
    /\ EngineIdle
    /\ batch_result = NewBatchAuditResult
    /\ call \in SummaryCalls
    /\ ret = <<>>

(* audit_batch over the sites of the call, with probes that do not raise *)
AuditSites ==
    /\ batch_result.completes = 0
    /\ batch_result' =
          complete(AddAll([NewBatchAuditResult EXCEPT
                              !.total_sites = IF call.other = <<>> THEN 1 ELSE 2],
                          OtherSiteResults(call) \o SiteProbeResults(call)))
    /\ UNCHANGED <<target_sites, enabled_auditors, max_workers, env, pc, idx, tasks, results,
                   completed, call, ret>>

GetSummaryBySite ==
    /\ batch_result.completes > 0
    /\ ret = <<>>
    /\ ret' = <<get_summary_by_site(batch_result)>>
    /\ UNCHANGED <<target_sites, enabled_auditors, max_workers, env, pc, idx, tasks, results,
                   completed, batch_result, call>>

NextSummary == AuditSites \/ GetSummaryBySite

SpecSummary == InitSummary /\ [][NextSummary]_vars

(* The case of C11: the site's TLS probe reported 1.3 and 1.2 supported, 1.1
   and 1.0 unsupported, and its headers probe got a response without
   Strict-Transport-Security *)
ResultOf(b, url, audit_type) ==
    LET I == {i \in DOMAIN b.results :
                 b.results[i].url = url /\ b.results[i].audit_type = audit_type}
    IN b.results[CHOOSE i \in I : TRUE]

ModernTlsAndNoHsts ==
    /\ ret # <<>>
    /\ call.response.received
    /\ "Strict-Transport-Security" \notin call.response.headers
    /\ LET tls == ResultOf(batch_result, SiteUrl, "tls_security") IN
       /\ tls.status # "ERROR"
       /\ tls.details.tls_version_support["TLSv1.3"].supported
       /\ tls.details.tls_version_support["TLSv1.2"].supported
       /\ ~tls.details.tls_version_support["TLSv1.1"].supported
       /\ ~tls.details.tls_version_support["TLSv1.0"].supported

(* C11 as stated: in that case the headers probe's verdict is NG whatever its
   other checks are, and the site's overall verdict in the summary is NG. *)
C11_MissingHstsMakesSiteNG ==
    ModernTlsAndNoHsts =>
        /\ ResultOf(batch_result, SiteUrl, "security_headers").status = "NG"
        /\ ret[1][SiteUrl].overall_status = "NG"

(* C11 amended: in that case the headers probe's verdict is NG whatever its
   other checks are, and the site's overall verdict is NG unless another
   result of the same site has verdict ERROR, in which case it is ERROR;
   results of other sites do not matter. *)
C11_MissingHstsMakesSiteNGUnlessError ==
    ModernTlsAndNoHsts =>
        /\ ResultOf(batch_result, SiteUrl, "security_headers").status = "NG"
        /\ ret[1][SiteUrl].overall_status =
              IF \E i \in DOMAIN batch_result.results :
                    /\ batch_result.results[i].url = SiteUrl
                    /\ batch_result.results[i].status = "ERROR"
              THEN "ERROR" ELSE "NG"

C11_Witness ==
    /\ ModernTlsAndNoHsts
    /\ ResultOf(batch_result, SiteUrl, "tls_security").status = "OK"
    /\ call.response.headers = required_headers \ {"Strict-Transport-Security"}
    /\ call.extra = <<>>
    /\ call.other = <<"ERROR">>
    /\ ret[1][SiteUrl].overall_status = "NG"

----------------------------------------------------------------------------
(* The engine in concurrent mode over more sites than workers: the actions of
   _execute_parallel, from batches of up to MaxPoolTargets sites with one
   enabled auditor. *)

MaxPoolTargets == 3

InitPool ==
    /\ target_sites \in SeqsUpTo(Urls, MaxPoolTargets)
    /\ enabled_auditors \in {<<"tls_security">>, <<"unknown_auditor">>}
    /\ max_workers \in 2..MaxWorkers
    /\ env = <<>>
    /\ pc = "start"
    /\ idx = 1
    /\ tasks = [t \in 1..Len(target_sites) |-> NewTask]
    /\ results = <<>>
    /\ completed = 0
    /\ batch_result = NewBatchAuditResult
    /\ call = <<>>
    /\ ret = <<>>

NextPool ==
    \/ AuditBatchStart
    \/ \E t \in DOMAIN tasks : WorkerStart(t)
    \/ \E t \in DOMAIN tasks : WorkerProbe(t)
    \/ \E t \in DOMAIN tasks : CollectReturned(t)
    \/ \E t \in DOMAIN tasks : CollectRaised(t)
    \/ ParReturn
    \/ ParRaise
    \/ AuditBatchFinish

SpecPool == InitPool /\ [][NextPool]_vars

(* C12: in concurrent mode exactly one task per target is submitted, at most
   max_workers of them run at the same time in every reachable state, and
   every submitted task's result has been collected when audit_batch returns. *)
C12_AtMostWorkersRunning ==
    /\ DOMAIN tasks = 1..Len(target_sites)
    /\ pc # "start" => \A t \in DOMAIN tasks : tasks[t].st # "new"
    /\ Cardinality(running) <= max_workers
    /\ pc \in {"add", "returned"} =>
          /\ \A t \in DOMAIN tasks : tasks[t].collected /\ tasks[t].st \in {"done", "failed"}
          /\ completed = Len(target_sites)
          /\ Len(results) = Len(target_sites)

C12_Witness ==
    /\ pc = "par"
    /\ max_workers > 1
    /\ Cardinality(running) = max_workers
    /\ \E t \in DOMAIN tasks : tasks[t].st = "queued"

----------------------------------------------------------------------------
(* audit_single_site at the grain of one probe's start and end: `call` holds,
   for each site's call of audit_single_site, the positions of the enabled
   list whose probe is in flight (execute_audit entered and not yet left). *)

MaxLoopTargets == 2

InitSiteLoop ==
    /\ target_sites \in SeqsUpTo(Urls, MaxLoopTargets)
    /\ enabled_auditors \in SeqsUpTo(ConfigNames, MaxEnabled)
    /\ max_workers \in 1..MaxWorkers
    /\ env = <<>>
    /\ pc = "loop"
    /\ idx = 1
    /\ tasks = [t \in 1..Len(target_sites) |-> NewTask]
    /\ results = <<>>
    /\ completed = 0
    /\ batch_result = NewBatchAuditResult
    /\ call = [t \in 1..Len(target_sites) |-> {}]
    /\ ret = <<>>

(* audit_single_site is called for site t: by _execute_sequential's loop once
   the calls for the sites before it are over, or by a free pool thread *)
SiteCallBegin(t) ==
    /\ tasks[t].st = "new"
    /\ \A s \in 1..(t - 1) : tasks[s].st # "new"
    /\ IF max_workers = 1
       THEN \A s \in 1..(t - 1) : tasks[s].st \in {"done", "failed"}
       ELSE Cardinality(running) < max_workers
    /\ tasks' = [tasks EXCEPT ![t] = audit_single_site_enter(@)]
    /\ UNCHANGED <<target_sites, enabled_auditors, max_workers, env, pc, idx, results,
                   completed, batch_result, call, ret>>

(* the loop reaches position k while an earlier probe may still be in flight *)
ProbeBegin_Overlap(t) ==
    /\ tasks[t].st = "running"
    /\ \E k \in tasks[t].k..Len(enabled_auditors) :
          /\ k \notin call[t]
          /\ enabled_auditors[k] \in auditor_classes
          /\ call' = [call EXCEPT ![t] = @ \cup {k}]
    /\ UNCHANGED <<target_sites, enabled_auditors, max_workers, env, pc, idx, tasks, results,
                   completed, batch_result, ret>>

(* lines 65-73: the loop reaches position k; an unknown name is skipped, else
   the auditor is built and execute_audit entered *)
ProbeBegin(t) ==
    /\ tasks[t].st = "running"
    /\ call[t] = {}
    /\ IF enabled_auditors[tasks[t].k] \in auditor_classes
       THEN /\ call' = [call EXCEPT ![t] = {tasks[t].k}]
            /\ tasks' = tasks
       ELSE /\ tasks' = [tasks EXCEPT ![t] = audit_single_site_iter(@, target_sites[t], "OK")]
            /\ call' = call
    /\ UNCHANGED <<target_sites, enabled_auditors, max_workers, env, pc, idx, results,
                   completed, batch_result, ret>>

(* lines 73-91: execute_audit returns and the result is appended, or the
   auditor raised and the handler runs *)
ProbeEnd(t) ==
    /\ tasks[t].st = "running"
    /\ tasks[t].k \in call[t]
    /\ LET url == target_sites[t]
           name == enabled_auditors[tasks[t].k]
       IN \E o \in OutcomeChoices(url, name) :
            /\ tasks' = [tasks EXCEPT ![t] = audit_single_site_iter(@, url, o)]
            /\ env' = Observe(url, name, o)
    /\ call' = [call EXCEPT ![t] = @ \ {tasks[t].k}]
    /\ UNCHANGED <<target_sites, enabled_auditors, max_workers, pc, idx, results,
                   completed, batch_result, ret>>

NextSiteLoop ==
    \/ \E t \in DOMAIN tasks : SiteCallBegin(t)
    \/ \E t \in DOMAIN tasks : ProbeBegin(t)
    \/ \E t \in DOMAIN tasks : ProbeEnd(t)

SpecSiteLoop == InitSiteLoop /\ [][NextSiteLoop]_vars

(* the audit types of the registered entries among the first n enabled ones *)
RECURSIVE RegisteredPrefix(_)
RegisteredPrefix(n) ==
    IF n = 0 THEN <<>>
    ELSE IF enabled_auditors[n] \in auditor_classes
         THEN Append(RegisteredPrefix(n - 1), enabled_auditors[n])
         ELSE RegisteredPrefix(n - 1)

(* C13: within one target the probes run one at a time in enabled-list order,
   in both modes: at most one probe of a target is in flight, it is the one
   at the loop's position, and the results gathered so far are those of the
   registered entries before that position, in list order -- so a probe
   starts only after every earlier one has produced its result, also when an
   earlier one ended in ERROR. *)
C13_ProbesOfOneTargetInOrder ==
    pc = "loop" =>
        \A t \in DOMAIN tasks :
            /\ Cardinality(call[t]) <= 1
            /\ call[t] # {} => tasks[t].st = "running" /\ call[t] = {tasks[t].k}
            /\ tasks[t].st \in {"running", "done"} =>
                  /\ Len(tasks[t].res) = Len(RegisteredPrefix(tasks[t].k - 1))
                  /\ \A i \in DOMAIN tasks[t].res :
                        /\ tasks[t].res[i].audit_type = RegisteredPrefix(tasks[t].k - 1)[i]
                        /\ tasks[t].res[i].url = target_sites[t]

C13_Witness ==
    /\ pc = "loop"
    /\ max_workers > 1
    /\ Len(target_sites) = 2
    /\ \A t \in DOMAIN tasks :
          /\ call[t] = {2}
          /\ Len(tasks[t].res) = 1
          /\ tasks[t].res[1].status = "ERROR"

----------------------------------------------------------------------------
(* the results of the sites' calls of audit_single_site, in site order *)
RECURSIVE ResultsInSiteOrder(_)
ResultsInSiteOrder(n) ==
    IF n = 0 THEN <<>> ELSE ResultsInSiteOrder(n - 1) \o tasks[n].res

(* C14: in sequential mode the targets are processed in input order: a
   target's probes start only after the calls for all targets before it are
   over, and the batch's results are the targets' results in input order. *)
C14_SequentialInInputOrder ==
    max_workers = 1 /\ pc # "idle" /\ pc # "loop" =>
        /\ \A t \in DOMAIN tasks :
              tasks[t].st # "new" =>
                  \A s \in 1..(t - 1) : tasks[s].st \in {"done", "failed"} /\ tasks[s].collected
        /\ pc = "seq" => Flatten(results) = ResultsInSiteOrder(idx - 1)
        /\ pc = "add" => Flatten(results) = ResultsInSiteOrder(Len(target_sites))
        /\ pc = "returned" => batch_result.results = ResultsInSiteOrder(Len(target_sites))

C14_Witness ==
    /\ max_workers = 1
    /\ pc = "returned"
    /\ Len(target_sites) = 2
    /\ target_sites[1] # target_sites[2]
    /\ Len(batch_result.results) = 4
    /\ batch_result.results[2].url = target_sites[1]
    /\ batch_result.results[3].url = target_sites[2]

----------------------------------------------------------------------------
(* C15: when URL validation rejects the target, execute_audit returns an ERROR
   result carrying the validation error without invoking the probe body, so
   no connection is opened and no request is sent for a rejected target. *)
C15_RejectedTargetIsNotProbed ==
    ret # <<>> /\ ValidationFails(call) =>
        /\ ~ret[1].raised
        /\ ret[1].value.status = "ERROR"
        /\ ret[1].value.error_message.prefix = "Validation error: "
        /\ ret[1].io = <<>>

C15_Witness ==
    /\ ret # <<>>
    /\ call.kind = "tls_security"
    /\ call.url.scheme = "https"
    /\ call.url.host = <<"10", "0", "0", "5">>
    /\ call.net.server # {}
    /\ ret[1].value.status = "ERROR"
    /\ ret[1].io = <<>>

----------------------------------------------------------------------------
(* URLValidator.validate_url over URLs with and without userinfo, port and
   host, of allowed and other schemes *)

ValidatorHosts ==
    {<<>>, <<"example", "com">>, <<"localhost">>, <<"127", "0", "0", "1">>,
     <<"0", "0", "0", "0">>, <<"10", "0", "0", "5">>, <<"10", "example", "com">>,
     <<"172", "16", "0", "1">>, <<"172", "32", "0", "1">>, <<"192", "168", "1", "1">>,
     <<"8", "8", "8", "8">>}

ValidatorUrls ==
    {Url(scheme, userinfo, host, port) :
        scheme \in {"http", "https", "ftp", ""}, userinfo \in {"", "user"},
        host \in ValidatorHosts, port \in {"", "8443"}}

InitValidator ==
    /\ EngineIdle
    /\ batch_result = NewBatchAuditResult
    /\ call \in ValidatorUrls
    /\ ret = <<>>

ValidateUrl ==
    /\ ret = <<>>
    /\ ret' = <<validate_url(call)>>
    /\ UNCHANGED <<target_sites, enabled_auditors, max_workers, env, pc, idx, tasks, results,
                   completed, batch_result, call>>

NextValidator == ValidateUrl

SpecValidator == InitValidator /\ [][NextValidator]_vars

(* Hosts by what they are: the decimal labels of the model, a dotted quad,
   the loopback and private ranges, a public host name *)
DecimalLabels ==
    {"0", "1", "5", "8", "10", "16", "32", "127", "168", "172", "192"}

IsDottedQuad(host) == Len(host) = 4 /\ \A i \in 1..4 : host[i] \in DecimalLabels

IsLoopbackOrPrivate(host) ==
    \/ host = <<"localhost">>
    \/ /\ IsDottedQuad(host)
       /\ \/ host[1] \in {"10", "127"}
          \/ host[1] = "172"
             /\ host[2] \in {"16", "17", "18", "19", "20", "21", "22", "23", "24", "25",
                             "26", "27", "28", "29", "30", "31"}
          \/ host[1] = "192" /\ host[2] = "168"

IsPublicHostName(host) ==
    /\ host # <<>>
    /\ host # <<"localhost">>
    /\ ~IsDottedQuad(host)

(* C16: validate_url accepts a URL only if it is an absolute http or https
   URL with a host; it rejects every URL whose host is localhost or an
   address in 10.0.0.0/8, 172.16.0.0/12, 192.168.0.0/16 or 127.0.0.0/8,
   whatever its port or userinfo; it rejects no http or https URL whose host
   is a public host name. *)
C16_ValidateUrlReference ==
    ret # <<>> =>
        /\ ret[1].ok => call.scheme \in {"http", "https"} /\ call.host # <<>>
        /\ IsLoopbackOrPrivate(call.host) => ~ret[1].ok
        /\ call.scheme \in {"http", "https"} /\ IsPublicHostName(call.host) => ret[1].ok

----------------------------------------------------------------------------
(* C17: for a target whose URL is not https the TLS prober's audit returns the
   one fixed NG result (details: not an HTTPS URL) without opening a
   connection or attempting a handshake, whatever the server would accept;
   execute_audit hands that result on for a URL that passes validation. *)
C17_NonHttpsTlsProbeIsFixedNG ==
    ret # <<>> /\ call.kind = "tls_security" /\ call.url.scheme # "https" =>
        /\ tls_audit(call.url, call.net) =
              Returned(create_result("tls_security", call.url, "NG",
                                     [error |-> "Not an HTTPS URL"], NoMessage), <<>>)
        /\ ret[1].io = <<>>
        /\ ~ValidationFails(call) => ret[1] = tls_audit(call.url, call.net)

C17_Witness ==
    /\ ret # <<>>
    /\ call.kind = "tls_security"
    /\ call.url.scheme = "http"
    /\ call.net.server = TlsVersions
    /\ ret[1].value.status = "NG"
    /\ ret[1].io = <<>>

----------------------------------------------------------------------------
(* C18: the BatchAuditResult is changed by the thread of audit_batch only and
   never while a worker's call is queued or running -- results and counters
   change only in audit_batch's add loop -- so no update is lost: the batch
   audit_batch returns holds every result the sites' calls produced, and its
   counters count them. *)
C18_BatchResultMutatedByOneThread ==
    /\ [][batch_result' # batch_result =>
            /\ \A t \in DOMAIN tasks : tasks[t].st \notin {"queued", "running"}
            /\ (\/ batch_result'.results # batch_result.results
                \/ batch_result'.successful_audits # batch_result.successful_audits
                \/ batch_result'.failed_audits # batch_result.failed_audits) => pc = "add"]_vars
    /\ [](pc = "returned" =>
            /\ Len(batch_result.results) = Len(ResultsInSiteOrder(Len(target_sites)))
            /\ \A r \in Range(batch_result.results) :
                  CountIn(batch_result.results, r)
                      = CountIn(ResultsInSiteOrder(Len(target_sites)), r)
            /\ batch_result.successful_audits = Successes(batch_result.results)
            /\ batch_result.failed_audits = Failures(batch_result.results))

C18_Witness ==
    /\ pc = "returned"
    /\ max_workers > 1
    /\ Len(target_sites) = 2
    /\ Len(batch_result.results) = 4
    /\ batch_result.successful_audits = 2
    /\ batch_result.failed_audits = 2

----------------------------------------------------------------------------
(* C19: a name of the enabled list that is not in the registry is skipped: no
   result is ever produced for it, it does not end the batch -- a batch over
   at least one site in which no auditor raised returns -- and the returned
   batch holds the result of every registered entry for every site. *)
C19_UnknownNameIsSkipped ==
    (\E j \in DOMAIN enabled_auditors : enabled_auditors[j] \notin auditor_classes) =>
        /\ \A t \in DOMAIN tasks : \A i \in DOMAIN tasks[t].res :
              tasks[t].res[i].audit_type \in auditor_classes
        /\ \A i \in DOMAIN batch_result.results :
              batch_result.results[i].audit_type \in auditor_classes
        /\ Terminated /\ Len(target_sites) > 0 /\ ~RaiseObserved => pc = "returned"
        /\ pc = "returned" =>
              \A url \in Range(target_sites) : \A name \in auditor_classes :
                  CountWhere(batch_result.results, url, name)
                      = TargetsWith(url) * EntriesWith(name)

C19_Witness ==
    /\ pc = "returned"
    /\ enabled_auditors = <<"unknown_auditor", "tls_security">>
    /\ Len(target_sites) = 2
    /\ target_sites[1] # target_sites[2]
    /\ Len(batch_result.results) = 2

----------------------------------------------------------------------------
(* main.py: SecurityAuditApplication, from the configuration file to the call
   of audit_batch.  `call` is the configuration's audit section and the sites
   of the input file; `ret` is how far the application got. *)

(* ConfigValidator._validate_audit_config, for integer settings *)
_validate_audit_config(audit_config) ==
    IF audit_config.parallel_workers < 1 \/ audit_config.parallel_workers > 20
    THEN [ok |-> FALSE, error |-> "parallel_workers must be between 1 and 20"]
    ELSE IF audit_config.timeout_seconds < 5 \/ audit_config.timeout_seconds > 300
    THEN [ok |-> FALSE, error |-> "timeout_seconds must be between 5 and 300"]
    ELSE IF audit_config.retry_count < 0 \/ audit_config.retry_count > 10
    THEN [ok |-> FALSE, error |-> "retry_count must be between 0 and 10"]
    ELSE [ok |-> TRUE, error |-> ""]

(* validate_auditor_config as it would be if it accepted every name *)
validate_auditor_config_AllValid(enabled) ==
    [valid |-> TRUE, invalid_auditors |-> <<>>]

(* AuditEngine.validate_auditor_config *)
validate_auditor_config(enabled) ==
    LET invalid_auditors == SelectSeq(enabled, LAMBDA name : name \notin auditor_classes) IN
    [valid |-> invalid_auditors = <<>>, invalid_auditors |-> invalid_auditors]

AuditConfigs ==
    [parallel_workers : {0, 1, 2, 20, 21}, timeout_seconds : {4, 5, 300, 301},
     retry_count : {-1, 0, 10, 11}, enabled_auditors : SeqsUpTo(ConfigNames, MaxEnabled)]

InitApplication ==
    /\ EngineIdle
    /\ batch_result = NewBatchAuditResult
    /\ call \in [audit : AuditConfigs, sites : SeqsUpTo(Urls, MaxTargets)]
    /\ ret = <<>>

(* SecurityAuditApplication.__init__: ConfigManager validates the
   configuration; a fault ends the process with sys.exit(1), else the engine
   is built from the configuration *)
ApplicationInit ==
    /\ ret = <<>>
    /\ IF _validate_audit_config(call.audit).ok
       THEN /\ ret' = <<"initialized">>
            /\ enabled_auditors' = call.audit.enabled_auditors
            /\ max_workers' = call.audit.parallel_workers
       ELSE /\ ret' = <<"exit">>
            /\ UNCHANGED <<enabled_auditors, max_workers>>
    /\ UNCHANGED <<target_sites, env, pc, idx, tasks, results, completed, batch_result, call>>

(* SecurityAuditApplication.run up to the call of audit_batch: the auditor
   configuration is validated, the sites are loaded, and audit_batch is
   entered (the engine is at its start with these sites) *)
ApplicationRun ==
    /\ ret = <<"initialized">>
    /\ IF ~validate_auditor_config(enabled_auditors).valid
       THEN /\ ret' = <<"invalid auditor configuration">>
            /\ UNCHANGED <<target_sites, pc, tasks>>
       ELSE IF call.sites = <<>>
       THEN /\ ret' = <<"no target sites">>
            /\ UNCHANGED <<target_sites, pc, tasks>>
       ELSE /\ ret' = <<"audit_batch">>
            /\ target_sites' = call.sites
            /\ tasks' = [t \in 1..Len(call.sites) |-> NewTask]
            /\ pc' = "start"
    /\ UNCHANGED <<enabled_auditors, max_workers, env, idx, results, completed, batch_result,
                   call>>

NextApplication == ApplicationInit \/ ApplicationRun

SpecApplication == InitApplication /\ [][NextApplication]_vars

ConfigurationFault(audit_config) ==
    \/ \E j \in DOMAIN audit_config.enabled_auditors :
          audit_config.enabled_auditors[j] \notin auditor_classes
    \/ audit_config.parallel_workers \notin 1..20
    \/ audit_config.timeout_seconds \notin 5..300
    \/ audit_config.retry_count \notin 0..10

(* C20: a configuration fault -- an unknown name in the enabled list, a
   worker count outside [1,20], a timeout outside [5,300], a retry count
   outside [0,10] -- aborts the run before the batch starts: audit_batch is
   never entered, so no probe is executed against any site; and a run without
   such a fault over at least one site does enter audit_batch. *)
C20_ConfigurationFaultAbortsBeforeBatch ==
    /\ ConfigurationFault(call.audit) =>
          /\ pc = "idle"
          /\ target_sites = <<>>
          /\ env = <<>>
          /\ ret \in {<<>>, <<"initialized">>, <<"exit">>, <<"invalid auditor configuration">>}
    /\ ret = <<"exit">> => ~_validate_audit_config(call.audit).ok
    /\ ret = <<"audit_batch">> =>
          /\ ~ConfigurationFault(call.audit)
          /\ pc = "start"
          /\ max_workers \in 1..20

C20_Witness ==
    /\ ret = <<"invalid auditor configuration">>
    /\ call.audit.enabled_auditors = <<"tls_security", "unknown_auditor">>
    /\ call.audit.parallel_workers = 2
    /\ Len(call.sites) = 2
    /\ pc = "idle"

----------------------------------------------------------------------------
(* The results of the list that have the audit_type a rule is evaluated from *)
OwnKindOnly(site_results, rule) ==
    SelectSeq(site_results, LAMBDA r : r.audit_type = RuleKind(rule))

(* C21: each rule's value and detail depend only on the site's results of the
   rule's own probe kind: evaluating the site with every result of another
   kind removed gives the same value and the same detail for the rule, so two
   lists that agree on the results of that kind agree on the rule, whatever
   the results of the other kinds and the outcomes of the other rules are. *)
C21_RuleDependsOnOwnKindOnly ==
    ret # <<>> =>
        \A rule \in Rules :
            LET own == _evaluate_single_site(call.url, OwnKindOnly(call.results, rule)) IN
            /\ ret[1].evaluations[rule] = own.evaluations[rule]
            /\ ret[1].details[rule] = own.details[rule]

C21_Witness ==
    /\ ret # <<>>
    /\ Len(call.results) = 2
    /\ call.results[1].audit_type = "security_headers"
    /\ call.results[1].status = "OK"
    /\ call.results[2].audit_type = "tls_security"
    /\ call.results[2].status = "ERROR"
    /\ ret[1].evaluations["S8-1"] = 1
    /\ ret[1].evaluations["S3"] = 0
    /\ ret[1].details["S3"] = DIAGNOSIS_ERROR
    /\ ret[1].details["S8-1"] # DIAGNOSIS_ERROR

----------------------------------------------------------------------------
(* output_generator.py: the compliance report.  `call` is the batch result's
   list of results; `ret` is the rows of the report, one for each URL. *)

(* ComplianceEvaluator.evaluate_batch_results: the results are grouped by URL,
   each group in list order, and each URL is evaluated from its group *)
evaluate_batch_results(rs) ==
    [url \in {rs[i].url : i \in DOMAIN rs} |->
        _evaluate_single_site(url, SelectSeq(rs, LAMBDA r : r.url = url))]

RECURSIVE SumOver(_, _)
SumOver(keys, d) ==
    IF keys = {} THEN 0
    ELSE LET k == CHOOSE x \in keys : TRUE IN d[k] + SumOver(keys \ {k}, d)

(* f"{(passed_items/total_items)*100:.1f}%", in tenths of a percent *)
FormatRate(passed_items, total_items) ==
    IF total_items > 0 THEN (2000 * passed_items + total_items) \div (2 * total_items) ELSE 0

(* the totals of a row as they would be if S1-2 were counted like the others *)
compliance_row_CountsManualRule(evaluation) ==
    LET keys == DOMAIN evaluation.evaluations
        total_items == Cardinality(keys)
        passed_items == SumOver(keys, evaluation.evaluations) IN
    [url |-> evaluation.url, evaluations |-> evaluation.evaluations,
     details |-> evaluation.details, passed_items |-> passed_items,
     total_items |-> total_items, pass_rate |-> FormatRate(passed_items, total_items)]

(* lines 431-488: the row of one URL *)
compliance_row(evaluation) ==
    LET keys == DOMAIN evaluation.evaluations \ {"S1-2"}
        total_items == Cardinality(keys)
        passed_items == SumOver(keys, evaluation.evaluations) IN
    [url |-> evaluation.url, evaluations |-> evaluation.evaluations,
     details |-> evaluation.details, passed_items |-> passed_items,
     total_items |-> total_items, pass_rate |-> FormatRate(passed_items, total_items)]

(* OutputGenerator._generate_compliance_report, up to the rows *)
_generate_compliance_report(rs) ==
    LET compliance_results == evaluate_batch_results(rs) IN
    [url \in DOMAIN compliance_results |-> compliance_row(compliance_results[url])]

(* One site with at most one result of each probe kind, in the order the
   engine runs the kinds; a scored result is OK or NG with details, a result
   of a failed probe is ERROR without details *)
OneOrNone(audit_type) ==
    {<<>>} \cup {<<SiteResult(audit_type, "ERROR", EmptyDict)>>}
    \cup {<<SiteResult(audit_type, IF audit_type = "tls_security" THEN "NG" ELSE "OK", d)>> :
            d \in DetailsOf(audit_type)}

ReportLists ==
    {cv \o enc \o tls \o ac \o sh :
        cv \in OneOrNone("component_vulnerability"), enc \in OneOrNone("encryption_check"),
        tls \in OneOrNone("tls_security"), ac \in OneOrNone("access_control"),
        sh \in OneOrNone("security_headers")}

InitReport ==
    /\ EngineIdle
    /\ batch_result = NewBatchAuditResult
    /\ call \in [results : ReportLists]
    /\ ret = <<>>

GenerateComplianceReport ==
    /\ ret = <<>>
    /\ ret' = <<_generate_compliance_report(call.results)>>
    /\ UNCHANGED <<target_sites, enabled_auditors, max_workers, env, pc, idx, tasks, results,
                   completed, batch_result, call>>

NextReport == GenerateComplianceReport

SpecReport == InitReport /\ [][NextReport]_vars

ScorableRules == Rules \ {"S1-2"}

(* C22: in every row of the compliance report the number of items is 11 (the
   12 rules without S1-2), the passed count is the number of rules other than
   S1-2 that are scored 1 and lies in 0..11, S1-2's score changes neither, and
   the pass rate is passed/11 as a percentage rounded to one decimal. *)
C22_PassRateOverScorableRules ==
    ret # <<>> =>
        \A url \in DOMAIN ret[1] :
            LET row == ret[1][url]
                passed == Cardinality({rule \in ScorableRules : row.evaluations[rule] = 1}) IN
            /\ row.total_items = Cardinality(ScorableRules)
            /\ row.total_items = 11
            /\ row.passed_items = passed
            /\ row.passed_items \in 0..11
            /\ 2 * row.pass_rate * 11 - 2000 * passed \in (0 - 11)..11

C22_Witness ==
    /\ ret # <<>>
    /\ "u1" \in DOMAIN ret[1]
    /\ ret[1]["u1"].evaluations["S1-2"] = 1
    /\ ret[1]["u1"].passed_items = 10
    /\ ret[1]["u1"].evaluations["S4"] = 0
    /\ ret[1]["u1"].pass_rate = 909

----------------------------------------------------------------------------
(* the TLS prober ran its version checks: an https URL that passed validation
   and whose port parses *)
TlsProbed ==
    /\ ret # <<>>
    /\ call.kind = "tls_security"
    /\ call.url.scheme = "https"
    /\ call.url.port # "abc"
    /\ ~ValidationFails(call)

VersionKey(v) ==
    CASE v = 13 -> "TLSv1.3" [] v = 12 -> "TLSv1.2" [] v = 11 -> "TLSv1.1" [] OTHER -> "TLSv1.0"

(* the attempts of the run that were pinned to exactly v *)
StrictAttempts(v) ==
    {i \in DOMAIN ret[1].io : ret[1].io[i].lo = v /\ ret[1].io[i].hi = v}

AttemptFailed(a) == ~Handshake(call.net, a.slot, a.lo, a.hi, a.verify, a.permissive).ok

(* C23: the version check returns an outcome for each of TLSv1.3, TLSv1.2,
   TLSv1.1 and TLSv1.0 and nothing else; whichever of its connections or
   handshakes fail, every version is still probed (a handshake pinned to that
   version is attempted), each outcome that is unsupported carries an error,
   and the probe does not raise. *)
C23_EveryVersionHasAnOutcome ==
    TlsProbed =>
        LET tls_support == ret[1].value.details.tls_version_support IN
        /\ ~ret[1].raised
        /\ DOMAIN tls_support = {"TLSv1.3", "TLSv1.2", "TLSv1.1", "TLSv1.0"}
        /\ \A v \in TlsVersions :
              /\ StrictAttempts(v) # {}
              /\ tls_support[VersionKey(v)].supported \in BOOLEAN
              /\ ~tls_support[VersionKey(v)].supported => tls_support[VersionKey(v)].error # ""

C23_Witness ==
    /\ TlsProbed
    /\ call.net.connFail = {1}
    /\ call.net.server = {12, 13}
    /\ call.net.certOk
    /\ ~ret[1].value.details.tls_version_support["TLSv1.3"].supported
    /\ ret[1].value.details.tls_version_support["TLSv1.3"].error = "timed out"
    /\ ret[1].value.details.tls_version_support["TLSv1.2"].supported
    /\ ret[1].value.details.tls_version_support["TLSv1.0"].method = "both_methods_failed"

----------------------------------------------------------------------------
(* attempt i of the run is a failed handshake pinned to v, and the next
   attempt is the widened one: range [v, v+1], certificate verification
   disabled, permissive cipher policy *)
FollowedByWidened(i, v) ==
    /\ i + 1 \in DOMAIN ret[1].io
    /\ ret[1].io[i + 1] = Attempt(ret[1].io[i].slot + 1, v, v + 1, FALSE, TRUE)

(* C24 as stated: for each of the four versions, a failed handshake pinned to
   the version is followed by a second attempt with the widened range,
   verification disabled and the permissive cipher policy. *)
C24_FailedPinIsRetriedForEveryVersion ==
    TlsProbed =>
        \A v \in TlsVersions : \A i \in StrictAttempts(v) :
            AttemptFailed(ret[1].io[i]) => FollowedByWidened(i, v)

(* C24 amended: for TLS 1.1 and 1.0 a failed pinned handshake is followed by
   the widened attempt before the version is recorded as unsupported, and a
   pinned handshake that succeeds is not followed by one; for TLS 1.3 and 1.2
   there is no second attempt: a failed pinned handshake is recorded as
   unsupported with its own error. *)
C24_FailedPinIsRetriedForLegacyVersions ==
    TlsProbed =>
        LET tls_support == ret[1].value.details.tls_version_support IN
        /\ \A v \in {10, 11} : \A i \in StrictAttempts(v) :
              /\ AttemptFailed(ret[1].io[i]) <=> FollowedByWidened(i, v)
              /\ ~tls_support[VersionKey(v)].supported =>
                    /\ AttemptFailed(ret[1].io[i])
                    /\ FollowedByWidened(i, v)
                    /\ tls_support[VersionKey(v)].method
                          \in {"legacy_compatibility_check", "both_methods_failed"}
        /\ \A v \in {12, 13} : \A i \in StrictAttempts(v) :
              /\ ~FollowedByWidened(i, v)
              /\ AttemptFailed(ret[1].io[i]) =>
                    /\ ~tls_support[VersionKey(v)].supported
                    /\ tls_support[VersionKey(v)].error
                          = Handshake(call.net, ret[1].io[i].slot, v, v, TRUE, FALSE).error
        /\ \A i \in DOMAIN ret[1].io : ~ret[1].io[i].verify => ret[1].io[i].lo \in {10, 11}

C24_Witness ==
    /\ TlsProbed
    /\ call.net.server = {10, 13}
    /\ ~call.net.certOk
    /\ call.net.connFail = {}
    /\ ~ret[1].value.details.tls_version_support["TLSv1.3"].supported
    /\ ret[1].value.details.tls_version_support["TLSv1.3"].error = "certificate verify failed"
    /\ ret[1].value.details.tls_version_support["TLSv1.0"].supported
    /\ ret[1].value.details.tls_version_support["TLSv1.0"].method = "legacy_compatibility_check"
    /\ ~ret[1].value.details.tls_version_support["TLSv1.1"].supported

----------------------------------------------------------------------------
(* what attempt a of the run negotiated *)
Negotiated(a) == Handshake(call.net, a.slot, a.lo, a.hi, a.verify, a.permissive)

(* the attempts of the run that belong to the probe of version v: the pinned
   one and, for 1.1 and 1.0, the widened one *)
AttemptsOf(v) ==
    {i \in DOMAIN ret[1].io :
        /\ ret[1].io[i].lo = v
        /\ ret[1].io[i].hi \in {v, v + 1}
        /\ ret[1].io[i].hi # 13 \/ v = 13}

(* C25: a version is reported supported only if a handshake of its own probe,
   pinned or widened, negotiated exactly that version, and the outcome records
   that version and its cipher; a widened handshake that succeeds with another
   version leaves the version unsupported, with the mismatch as its error. *)
C25_SupportedOnlyIfExactlyNegotiated ==
    TlsProbed =>
        LET tls_support == ret[1].value.details.tls_version_support IN
        \A v \in TlsVersions :
            /\ tls_support[VersionKey(v)].supported =>
                  /\ \E i \in AttemptsOf(v) :
                        /\ Negotiated(ret[1].io[i]).ok
                        /\ Negotiated(ret[1].io[i]).version = VersionString(v)
                        /\ tls_support[VersionKey(v)].cipher = Negotiated(ret[1].io[i]).cipher
                  /\ tls_support[VersionKey(v)].version = VersionString(v)
                  /\ v \in call.net.server
            /\ \A i \in AttemptsOf(v) :
                  (/\ ret[1].io[i].hi = v + 1
                   /\ Negotiated(ret[1].io[i]).ok
                   /\ Negotiated(ret[1].io[i]).version # VersionString(v)) =>
                      /\ ~tls_support[VersionKey(v)].supported
                      /\ tls_support[VersionKey(v)].error
                            = NegotiatedInstead(Negotiated(ret[1].io[i]).version, v)

C25_Witness ==
    /\ TlsProbed
    /\ call.net.server = {10, 12}
    /\ call.net.connFail = {}
    /\ ~call.net.legacyStrictOk
    /\ ~ret[1].value.details.tls_version_support["TLSv1.1"].supported
    /\ ret[1].value.details.tls_version_support["TLSv1.1"].error
          = "Server negotiated TLSv1.2 instead of TLSv1.1"
    /\ ret[1].value.details.tls_version_support["TLSv1.0"].supported
    /\ ret[1].value.details.tls_version_support["TLSv1.0"].method = "legacy_compatibility_check"
    /\ ret[1].value.details.tls_version_support["TLSv1.0"].version = "TLSv1"

----------------------------------------------------------------------------
(* lines 331-339: the list strong_ciphers of the known modern suites (AES-GCM
   and ChaCha20-Poly1305), restricted to the cipher names of the model; the
   source defines the list and does not use it *)
strong_ciphers ==
    {"ECDHE-RSA-AES256-GCM-SHA384", "TLS_AES_256_GCM_SHA384", "TLS_CHACHA20_POLY1305_SHA256"}

(* C26: the negotiated cipher is classified strong exactly when it is an
   AES-GCM or ChaCha20-Poly1305 suite: each such name gives has_strong_ciphers
   = true, and any other cipher, or a failed handshake, gives false. *)
C26_StrongIffModernSuite ==
    TlsProbed =>
        LET h == Handshake(call.net, 8, 10, 13, TRUE, FALSE) IN
        ret[1].value.details.cipher_info.has_strong_ciphers
            <=> (h.ok /\ h.cipher \in strong_ciphers)

----------------------------------------------------------------------------
(* C27: on every exit of audit_batch, by return or by AuditError, the
   BatchResult has been finalized exactly once; its results entered through
   add_result (the two counters account for every result); nothing is added
   once it is finalized; and a fault that left the execution phase ends in
   AuditError. *)
C27_FinalizedExactlyOnce ==
    /\ [](/\ Terminated =>
              /\ batch_result.completes = 1
              /\ Len(batch_result.results)
                    = batch_result.successful_audits + batch_result.failed_audits
          /\ batch_result.completes = 0 \/ Terminated
          /\ (Terminated /\ RaiseObserved) => pc = "raised")
    /\ [][batch_result.completes > 0 => batch_result'.results = batch_result.results]_vars

----------------------------------------------------------------------------
(* The compliance report of a batch over two URLs: the list BatchResult.results
   a run of audit_batch left, with the results of the TLS and the
   HTTPS-enforcement probes; the same URL and kind may occur twice, as when a
   URL is submitted twice *)
MaxBatchResults == 2

BatchUrls == {"u1", "u2"}

BatchResults ==
    {[r EXCEPT !.url = url] :
        r \in {x \in SiteResults : x.audit_type \in {"tls_security", "encryption_check"}},
        url \in BatchUrls}

InitReportOrder ==
    /\ EngineIdle
    /\ batch_result = NewBatchAuditResult
    /\ call \in [results : SeqsUpTo(BatchResults, MaxBatchResults)]
    /\ ret = <<>>

SpecReportOrder == InitReportOrder /\ [][NextReport]_vars

IndexPermutations(n) == {f \in [1..n -> 1..n] : \A i, j \in 1..n : f[i] = f[j] => i = j}

Permuted(rs, f) == [i \in 1..Len(rs) |-> rs[f[i]]]

(* C28: the compliance rows do not depend on the order of
   BatchResult.results: every permutation of the list gives the same rows,
   also when a URL has two results of the same probe kind. *)
C28_RowsInvariantUnderPermutation ==
    ret # <<>> =>
        \A f \in IndexPermutations(Len(call.results)) :
            _generate_compliance_report(Permuted(call.results, f)) = ret[1]

----------------------------------------------------------------------------
(* The TLS probe of a site followed by the compliance evaluation of the
   site's results: `ret` is <<the probe's outcome>> and then <<the probe's
   outcome, the site's evaluation>>. *)
InitTlsCompliance ==
    /\ EngineIdle
    /\ batch_result = NewBatchAuditResult
    /\ call \in {c \in ProbeCalls : c.kind = "tls_security"}
    /\ ret = <<>>

(* the evaluation of the site from the result the probe returned *)
EvaluateProbedSite ==
    /\ Len(ret) = 1
    /\ ret' = Append(ret, _evaluate_single_site(call.url, <<ret[1].value>>))
    /\ UNCHANGED <<target_sites, enabled_auditors, max_workers, env, pc, idx, tasks, results,
                   completed, batch_result, call>>

NextTlsCompliance == ExecuteAudit \/ EvaluateProbedSite

SpecTlsCompliance == InitTlsCompliance /\ [][NextTlsCompliance]_vars

(* C29: rule S4 is scored 1 only if the TLS probe recorded outcomes for
   TLSv1.0 and TLSv1.1 and both are unsupported, so that S4 passes exactly
   when the prober computed old_tls_disabled as true; a TLS result without
   version outcomes, such as the fixed NG of a non-https URL, does not pass. *)
C29_S4NeedsRecordedLegacyOutcomes ==
    Len(ret) = 2 =>
        LET details == ret[1].value.details IN
        /\ ret[2].evaluations["S4"] = 1 =>
              /\ "tls_version_support" \in DOMAIN details
              /\ {"TLSv1.0", "TLSv1.1"} \subseteq DOMAIN details.tls_version_support
              /\ ~details.tls_version_support["TLSv1.0"].supported
              /\ ~details.tls_version_support["TLSv1.1"].supported
        /\ (TlsProbed /\ ret[1].value.status # "ERROR") =>
              (ret[2].evaluations["S4"] = 1
                  <=> ~(\/ details.tls_version_support["TLSv1.0"].supported
                        \/ details.tls_version_support["TLSv1.1"].supported))
        /\ call.url.scheme # "https" => ret[2].evaluations["S4"] = 0

----------------------------------------------------------------------------
(* BatchAuditResult.success_rate, in percent (whole percents) *)
success_rate(b) ==
    IF b.total_sites = 0 THEN 0 ELSE (b.successful_audits * 100) \div b.total_sites

(* C30: for every BatchResult audit_batch returns, success_rate is between 0
   and 100: successful_audits does not exceed total_sites. *)
C30_SuccessRateAtMost100 ==
    pc = "returned" =>
        /\ batch_result.successful_audits <= batch_result.total_sites
        /\ success_rate(batch_result) \in 0..100

====
